---- MODULE Spec2Model ----
(***************************************************************************)
(* Model of the tool calling bot (src/main.py, src/tools.py): the windowed *)
(* conversation memory, the tool dispatcher, the orchestration loop        *)
(* chat_with_llm and the interactive loop chat_interface.                   *)
(*                                                                         *)
(* Python values are records [type, val]: a str is its list of pieces, and *)
(* None is a value of its own.  The Model Gateway (the OpenAI client), the *)
(* three capabilities of tools.py and the keyboard are the environment:    *)
(* their answers are chosen with \E from small sets.                       *)
(***************************************************************************)
EXTENDS Integers, Sequences, FiniteSets, TLC

\* ------------------------------------------------------------------ bounds
\* Exchanges recorded in one session (W + 1, so that the window slides).
MaxHistory == 4
\* Tool calls carried by one gateway response.
MaxCalls == 2
\* Tool calls requested by the gateway over the whole session.
MaxToolCalls == 3
\* Exchanges in the histories the prompt builder is applied to on its own.
MaxPromptHistory == 5

\* --------------------------------------------------------- program constants
WINDOW_SIZE == 3

\* ------------------------------------------------------------ Python values
Str(pieces) == [type |-> "str", val |-> pieces]
None == [type |-> "NoneType", val |-> <<>>]
IsStr(v) == v.type = "str"
\* Python truthiness of a str-or-None value: None and "" are falsy.
Truthy(v) == v.type = "str" /\ v.val # <<>> /\ v.val # <<"">>

SYSTEM_PROMPT == Str(<<"You are a helpful assistant with access to three tools">>)

\* ---------------------------------------------------------- Windowed Memory
\* A Turn of the transcript.  tool_calls = <<>> and tool_call_id = 0 stand
\* for the absent keys of the Python dict.
Turn(role, content, tool_calls, tool_call_id) ==
    [role |-> role, content |-> content, tool_calls |-> tool_calls,
     tool_call_id |-> tool_call_id]

\* RecentHistory as it would be if the slice kept the oldest Exchanges.
RecentHistoryOldest(history) ==
    IF Len(history) > WINDOW_SIZE
    THEN SubSeq(history, 1, WINDOW_SIZE)
    ELSE history

\* The slice chat_history[-WINDOW_SIZE:] of build_prompt_windowed.
RecentHistory(history) ==
    IF Len(history) > WINDOW_SIZE
    THEN SubSeq(history, Len(history) - WINDOW_SIZE + 1, Len(history))
    ELSE history

RECURSIVE AppendExchanges(_, _)
AppendExchanges(msgs, recent) ==
    IF recent = <<>> THEN msgs
    ELSE AppendExchanges(
             Append(Append(msgs, Turn("user", Head(recent).user, <<>>, 0)),
                    Turn("assistant", Head(recent).ai, <<>>, 0)),
             Tail(recent))

build_prompt_windowed(history, input) ==
    Append(AppendExchanges(<<Turn("system", SYSTEM_PROMPT, <<>>, 0)>>,
                           RecentHistory(history)),
           Turn("user", input, <<>>, 0))

\* add_to_chat_history as it would be if it kept a sliding window.
add_to_chat_history_sliding(history, input, ai_response) ==
    RecentHistory(Append(history, [user |-> input, ai |-> ai_response]))

add_to_chat_history(history, input, ai_response) ==
    Append(history, [user |-> input, ai |-> ai_response])

\* ------------------------------------------------------------ JSON decoding
\* The argument texts a ToolCallRequest may carry.  Every tool reads its own
\* key, so one object with the three keys serves the three tools.
ARGS_STR == "{\"expression\": \"6*7\", \"timezone\": \"EST\", \"query\": \"tla\"}"
ARGS_INT == "{\"expression\": 5, \"timezone\": 5, \"query\": 5}"
ARGS_EMPTY == "{}"
ARGS_BLANK == "{\"expression\": \"\", \"timezone\": \"\", \"query\": \"\"}"
ARGS_LIST == "[1]"
ARGS_NULL == "null"
ARGS_MALFORMED == "{\"expression\": "

ArgTexts == {ARGS_STR, ARGS_INT, ARGS_EMPTY, ARGS_BLANK, ARGS_LIST, ARGS_NULL,
             ARGS_MALFORMED}

PyInt(n) == [type |-> "int", val |-> <<n>>]
ArgKeys == {"expression", "timezone", "query"}
PyDict(items) == [type |-> "dict", items |-> items]
PyList == [type |-> "list", items |-> {}]
PyNull == [type |-> "NoneType", items |-> {}]

\* json.loads: the decoded value, or the exception class it raises.
json_loads(text) ==
    CASE text = ARGS_STR ->
           [exc |-> "none",
            value |-> PyDict({<<"expression", Str(<<"6", "*", "7">>)>>,
                              <<"timezone", Str(<<"EST">>)>>,
                              <<"query", Str(<<"tla">>)>>})]
      [] text = ARGS_INT ->
           [exc |-> "none",
            value |-> PyDict({<<k, PyInt("5")>> : k \in ArgKeys})]
      [] text = ARGS_EMPTY -> [exc |-> "none", value |-> PyDict({})]
      [] text = ARGS_BLANK ->
           [exc |-> "none",
            value |-> PyDict({<<k, Str(<<"">>)>> : k \in ArgKeys})]
      [] text = ARGS_LIST -> [exc |-> "none", value |-> PyList]
      [] text = ARGS_NULL -> [exc |-> "none", value |-> PyNull]
      [] OTHER -> [exc |-> "JSONDecodeError", value |-> PyNull]

\* dict.get(key, default)
DictGet(d, key, default) ==
    IF \E p \in d.items : p[1] = key
    THEN (CHOOSE p \in d.items : p[1] = key)[2]
    ELSE default

\* ---------------------------------------------------------------- the state
VARIABLES
    chat_history,      \* main.py: the global list of Exchanges
    pc,                \* where the session is
    user_input,        \* chat_interface: the stripped line
    messages,          \* chat_interface: the transcript of the current query
    response,          \* chat_interface: what chat_with_llm returned
    response_message,  \* chat_with_llm: the first response
    final_response,    \* chat_with_llm: the second response
    final_content,     \* chat_with_llm: the second response's content
    chained_response,  \* chat_with_llm: the third response
    i,                 \* chat_with_llm: position in the batch being dispatched
    function_name,     \* chat_with_llm: the name of the call being dispatched
    function_args,     \* chat_with_llm: its decoded arguments
    tool_result,       \* chat_with_llm: the last dispatcher result
    tool_total,        \* gateway: tool calls requested in the session
    gateway_calls,     \* history: gateway invocations for the current line
    batches,           \* history: dispatch batches started for the current line
    raised,            \* history: the exception raised while handling it
    last_response,     \* history: the gateway's last answer for it
    history_before,    \* history: chat_history when the current line was read
    exit_code,         \* main: the process exit code, -1 while running
    input_line,        \* history: the line input() returned last
    expression,        \* calculator_tool: the expression text
    node,              \* calculator_tool: the parsed expression
    timezone,          \* get_current_time: the timezone token
    utc_now,           \* the clock: the instant datetime.utcnow() returns
    pytz_folds_case,   \* the pytz release: whether zone names are case-folded
    query,             \* web_search: the search terms
    num_results,       \* web_search: the number of results, checked
    results,           \* web_search: the lines found
    search_data        \* the DuckDuckGo API: what it answers a request

vars == <<chat_history, pc, user_input, messages, response, response_message,
          final_response, final_content, chained_response, i, function_name,
          function_args, tool_result, tool_total, gateway_calls, batches,
          raised, last_response, history_before, exit_code, input_line,
          expression, node, timezone, utc_now, pytz_folds_case, query,
          num_results, results, search_data>>

\* The locals of the capabilities of tools.py, and what they read.
searchvars == <<query, num_results, results, search_data>>

toolvars == <<expression, node, timezone, utc_now, pytz_folds_case, searchvars>>

locals == <<response_message, final_response, final_content, chained_response,
            i, function_name, function_args, tool_result>>

\* ------------------------------------------------------------- capabilities
\* What a call of a capability does: it returns a str, or it raises.
Returns(v) == [exc |-> "none", value |-> v]
Raises(cls) == [exc |-> cls, value |-> None]

\* The classes that `except Exception` catches; KeyboardInterrupt derives
\* from BaseException only.
ExceptionClasses == {"Exception", "JSONDecodeError", "AttributeError"}

\* ------------------------------------------------------ Expression Evaluator
\* The text of an expression is the list of its lexical tokens; a blank
\* piece stands for leading or trailing white space.  Blanks between tokens
\* mean nothing to re.sub's \b, to ast.parse or to eval.
BlankPieces == {"", "   "}

\* str.strip() on a text whose blanks are at its ends
py_strip(pieces) == SelectSeq(pieces, LAMBDA p : p \notin BlankPieces)

\* The numeric literals of the modelled expressions.
Numbers == {"0", "1", "2", "3", "4", "6", "7", "8", "15", "16", "100", "847"}

NumberValue(tok) ==
    CASE tok = "0" -> 0 [] tok = "1" -> 1 [] tok = "2" -> 2 [] tok = "3" -> 3
      [] tok = "4" -> 4 [] tok = "6" -> 6 [] tok = "7" -> 7 [] tok = "8" -> 8
      [] tok = "15" -> 15 [] tok = "16" -> 16 [] tok = "100" -> 100
      [] tok = "847" -> 847

\* The string literals of the modelled expressions.
StringLiterals == {"'os'"}

\* The identifiers of the modelled expressions.
Identifiers == {"sqrt", "sin", "cos", "tan", "log", "ln", "log10", "pi", "e",
                "math", "abs", "round", "min", "max", "sum", "pow", "foo",
                "of", "percent", "percentage", "__import__", "__class__",
                "__dict__", "__builtins__"}

\* \w at the start of a token: a digit, a letter or an underscore.
IsWord(tok) == tok \in Numbers \cup Identifiers

\* The word entries of the dict `replacements`, in insertion order.
replacements ==
    << <<"sqrt", <<"math", ".", "sqrt">> >>,
       <<"sin", <<"math", ".", "sin">> >>,
       <<"cos", <<"math", ".", "cos">> >>,
       <<"tan", <<"math", ".", "tan">> >>,
       <<"log", <<"math", ".", "log">> >>,
       <<"ln", <<"math", ".", "log">> >>,
       <<"log10", <<"math", ".", "log10">> >>,
       <<"pi", <<"math", ".", "pi">> >>,
       <<"e", <<"math", ".", "e">> >> >>

\* re.sub(r'\b' + old + r'\b', new, expression) for a word `old`: every
\* whole-word occurrence is replaced, the replacement is not scanned again.
RECURSIVE re_sub_word(_, _, _)
re_sub_word(old, new, tokens) ==
    IF tokens = <<>> THEN <<>>
    ELSE (IF Head(tokens) = old THEN new ELSE <<Head(tokens)>>)
         \o re_sub_word(old, new, Tail(tokens))

\* re.sub(r'\b^\b', '**', expression), the '^' entry: in the pattern ^ is
\* the start-of-text anchor, so it matches the empty string at the start of
\* a text that begins with a word character, and never a '^' character.
re_sub_caret(tokens) ==
    IF tokens # <<>> /\ IsWord(Head(tokens)) THEN <<"**">> \o tokens ELSE tokens

RECURSIVE ApplyReplacements(_, _)
ApplyReplacements(rules, tokens) ==
    IF rules = <<>> THEN tokens
    ELSE ApplyReplacements(Tail(rules),
                           re_sub_word(Head(rules)[1], Head(rules)[2], tokens))

\* The loop over replacements.items()
Rewritten(tokens) == re_sub_caret(ApplyReplacements(replacements, tokens))

\* --- ast.parse(expression, mode='eval') on the expression grammar of Python
\* restricted to the tokens above.  A node has its class, its identifier
\* (name, attribute, operator or literal) and its child nodes in the order
\* of ast.iter_child_nodes.
Node(op, id, kids) == [op |-> op, id |-> id, kids |-> kids]

Parsed(tree, rest) == [ok |-> TRUE, node |-> tree, rest |-> rest]

NoNode == Node("none", "", <<>>)

ParseFailed == [ok |-> FALSE, node |-> NoNode, rest |-> <<>>]

\* The binary operators by precedence level, loosest first.
BinaryLevels == << {"^"}, {"+", "-"}, {"*", "/", "%"} >>

RECURSIVE ParseBinary(_, _), ParseBinaryRest(_, _, _), ParseFactor(_),
          ParsePower(_), ParseTrailers(_, _), ParseArgs(_, _), ParseAtom(_)

\* atom: a literal, a name, the empty tuple, or a parenthesised expression
ParseAtom(toks) ==
    IF toks = <<>> THEN ParseFailed
    ELSE IF Head(toks) \in Numbers \cup StringLiterals
    THEN Parsed(Node("Constant", Head(toks), <<>>), Tail(toks))
    ELSE IF Head(toks) \in Identifiers
    THEN Parsed(Node("Name", Head(toks), <<>>), Tail(toks))
    ELSE IF Head(toks) # "(" THEN ParseFailed
    ELSE IF Len(toks) >= 2 /\ toks[2] = ")"
    THEN Parsed(Node("Tuple", "", <<>>), SubSeq(toks, 3, Len(toks)))
    ELSE LET e == ParseBinary(1, Tail(toks))
         IN  IF e.ok /\ e.rest # <<>> /\ Head(e.rest) = ")"
             THEN Parsed(e.node, Tail(e.rest))
             ELSE ParseFailed

\* The arguments of a call, up to its closing parenthesis.
ParseArgs(kids, toks) ==
    LET e == ParseBinary(1, toks)
    IN  IF ~e.ok \/ e.rest = <<>> THEN ParseFailed
        ELSE IF Head(e.rest) = ","
        THEN ParseArgs(Append(kids, e.node), Tail(e.rest))
        ELSE IF Head(e.rest) = ")"
        THEN Parsed(Node("Call", "", Append(kids, e.node)), Tail(e.rest))
        ELSE ParseFailed

\* trailers: attribute references and calls
ParseTrailers(left, toks) ==
    IF toks = <<>> THEN Parsed(left, toks)
    ELSE IF Head(toks) = "."
    THEN IF Len(toks) >= 2 /\ toks[2] \in Identifiers
         THEN ParseTrailers(Node("Attribute", toks[2], <<left>>),
                            SubSeq(toks, 3, Len(toks)))
         ELSE ParseFailed
    ELSE IF Head(toks) = "("
    THEN IF Len(toks) >= 2 /\ toks[2] = ")"
         THEN ParseTrailers(Node("Call", "", <<left>>),
                            SubSeq(toks, 3, Len(toks)))
         ELSE LET a == ParseArgs(<<left>>, Tail(toks))
              IN  IF a.ok THEN ParseTrailers(a.node, a.rest) ELSE ParseFailed
    ELSE Parsed(left, toks)

\* power: primary ['**' factor]
ParsePower(toks) ==
    LET a == ParseAtom(toks)
    IN  IF ~a.ok THEN ParseFailed
        ELSE LET p == ParseTrailers(a.node, a.rest)
             IN  IF ~p.ok THEN ParseFailed
                 ELSE IF p.rest # <<>> /\ Head(p.rest) = "**"
                 THEN LET f == ParseFactor(Tail(p.rest))
                      IN  IF f.ok
                          THEN Parsed(Node("BinOp", "**", <<p.node, f.node>>),
                                      f.rest)
                          ELSE ParseFailed
                 ELSE p

\* factor: ('+' | '-') factor | power
ParseFactor(toks) ==
    IF toks # <<>> /\ Head(toks) \in {"+", "-"}
    THEN LET f == ParseFactor(Tail(toks))
         IN  IF f.ok THEN Parsed(Node("UnaryOp", Head(toks), <<f.node>>), f.rest)
             ELSE ParseFailed
    ELSE ParsePower(toks)

\* The left-associative tail of a binary level.
ParseBinaryRest(level, left, toks) ==
    IF toks # <<>> /\ Head(toks) \in BinaryLevels[level]
    THEN LET r == ParseBinary(level + 1, Tail(toks))
         IN  IF r.ok
             THEN ParseBinaryRest(level,
                                  Node("BinOp", Head(toks), <<left, r.node>>),
                                  r.rest)
             ELSE ParseFailed
    ELSE Parsed(left, toks)

ParseBinary(level, toks) ==
    IF level > Len(BinaryLevels) THEN ParseFactor(toks)
    ELSE LET l == ParseBinary(level + 1, toks)
         IN  IF l.ok THEN ParseBinaryRest(level, l.node, l.rest)
             ELSE ParseFailed

\* ast.parse: the tree, or SyntaxError when the text is no expression.
ast_parse(tokens) ==
    LET e == ParseBinary(1, tokens)
    IN  IF e.ok /\ e.rest = <<>> THEN e ELSE ParseFailed

\* ast.walk: the nodes of the tree, breadth first.
RECURSIVE ast_walk(_)
ast_walk(queue) ==
    IF queue = <<>> THEN <<>>
    ELSE <<Head(queue)>> \o ast_walk(Tail(queue) \o Head(queue).kids)

\* The keys of safe_dict.
safe_dict == {"__builtins__", "math", "abs", "round", "min", "max", "sum"}

\* id.startswith('math.'): the id of an ast.Name holds no dot.
StartsWithMathDot(id) == FALSE

\* The loop over ast.walk(node): a Call node is passed over whatever its
\* function is, an Attribute node is not looked at, and a Name node raises
\* ValueError when its id is no key of safe_dict.  The Names that raise, in
\* walk order.
UnsafeNames(tree) ==
    SelectSeq(ast_walk(<<tree>>),
              LAMBDA n : /\ n.op = "Name"
                         /\ n.id \notin safe_dict
                         /\ ~StartsWithMathDot(n.id))

\* --- eval(compile(node), safe_dict).  A number is the fraction n/d in
\* lowest terms (an int and the float of the same value print alike); every
\* other object is known by its name.
Num(n, d) == [kind |-> "num", n |-> n, d |-> d, name |-> ""]

Obj(name) == [kind |-> "object", n |-> 0, d |-> 1, name |-> name]

\* A float whose digits the model does not compute.
SomeFloat == Obj("float")

IsNumber(v) == v.kind = "num" \/ v = SomeFloat

Value(v) == [exc |-> "none", detail |-> "", v |-> v]

EvalRaises(cls, detail) == [exc |-> cls, detail |-> detail, v |-> Obj("")]

Abs(n) == IF n < 0 THEN -n ELSE n

RECURSIVE GCD(_, _)
GCD(a, b) == IF b = 0 THEN a ELSE GCD(b, a % b)

\* The fraction n/d, d # 0, in lowest terms with a positive denominator.
Fraction(n, d) ==
    LET g == GCD(Abs(n), Abs(d))
        s == IF d < 0 THEN -1 ELSE 1
    IN  Num(s * (n \div g), s * (d \div g))

RECURSIVE IntPower(_, _)
IntPower(b, k) == IF k = 0 THEN 1 ELSE b * IntPower(b, k - 1)

RECURSIVE BitXor(_, _)
BitXor(a, b) ==
    IF a = 0 THEN b
    ELSE IF b = 0 THEN a
    ELSE (((a % 2) + (b % 2)) % 2) + 2 * BitXor(a \div 2, b \div 2)

IsSquare(n) == \E k \in 0..n : k * k = n

SquareRoot(n) == CHOOSE k \in 0..n : k * k = n

Less(a, b) == a.n * b.d < b.n * a.d

\* A binary operator applied to two objects.
BinOp(op, a, b) ==
    IF a.kind = "num" /\ b.kind = "num"
    THEN CASE op = "+" -> Value(Fraction(a.n * b.d + b.n * a.d, a.d * b.d))
           [] op = "-" -> Value(Fraction(a.n * b.d - b.n * a.d, a.d * b.d))
           [] op = "*" -> Value(Fraction(a.n * b.n, a.d * b.d))
           [] op = "/" ->
                IF b.n = 0 THEN EvalRaises("ZeroDivisionError", "division by zero")
                ELSE Value(Fraction(a.n * b.d, a.d * b.n))
           [] op = "%" ->
                IF b.n = 0 THEN EvalRaises("ZeroDivisionError", "modulo by zero")
                ELSE IF a.d = 1 /\ b.d = 1
                THEN Value(Num(IF b.n > 0 THEN a.n % b.n
                               ELSE -((-a.n) % (-b.n)), 1))
                ELSE Value(SomeFloat)
           [] op = "**" ->
                IF b.d = 1 /\ b.n >= 0
                THEN Value(Fraction(IntPower(a.n, b.n), IntPower(a.d, b.n)))
                ELSE Value(SomeFloat)
           [] op = "^" ->
                IF a.d = 1 /\ b.d = 1 /\ a.n >= 0 /\ b.n >= 0
                THEN Value(Num(BitXor(a.n, b.n), 1))
                ELSE EvalRaises("TypeError", "unsupported operand type(s)")
    ELSE IF IsNumber(a) /\ IsNumber(b) /\ op # "^" THEN Value(SomeFloat)
    ELSE EvalRaises("TypeError", "unsupported operand type(s)")

\* The callables of the math module the rewriting refers to.
MathFunctions == {"sqrt", "sin", "cos", "tan", "log", "log10", "pow"}

\* getattr(obj, attr)
GetAttr(obj, attr) ==
    IF attr = "__class__" THEN Value(Obj("class"))
    ELSE IF obj = Obj("module math")
    THEN CASE attr \in MathFunctions -> Value(Obj(attr))
           [] attr = "pi" -> Value(Num(31416, 10000))
           [] attr = "e" -> Value(Num(27183, 10000))
           [] attr = "__dict__" -> Value(Obj("dict"))
           [] OTHER -> EvalRaises("AttributeError", "no such attribute")
    ELSE IF obj = Obj("class") /\ attr = "__dict__" THEN Value(Obj("dict"))
    ELSE EvalRaises("AttributeError", "no such attribute")

RECURSIVE Extreme(_, _)
Extreme(name, args) ==
    IF Len(args) = 1 THEN args[1]
    ELSE LET m == Extreme(name, Tail(args))
         IN  IF name = "min"
             THEN (IF Less(m, args[1]) THEN m ELSE args[1])
             ELSE (IF Less(args[1], m) THEN m ELSE args[1])

\* The names of the callable objects an expression can reach.
Callables == MathFunctions \cup {"abs", "round", "min", "max", "sum"}

\* func(*args) for the callables of safe_dict and of math.
Apply(func, args) ==
    IF func.kind # "object" \/ func.name \notin Callables
    THEN EvalRaises("TypeError", "object is not callable")
    ELSE IF \E k \in DOMAIN args : args[k].kind # "num"
    THEN IF \A k \in DOMAIN args : IsNumber(args[k])
         THEN Value(SomeFloat)
         ELSE EvalRaises("TypeError", "bad argument type")
    ELSE CASE func.name = "sqrt" /\ Len(args) = 1 ->
                IF args[1].n < 0 THEN EvalRaises("ValueError", "math domain error")
                ELSE IF IsSquare(args[1].n) /\ IsSquare(args[1].d)
                THEN Value(Num(SquareRoot(args[1].n), SquareRoot(args[1].d)))
                ELSE Value(SomeFloat)
           [] func.name = "abs" /\ Len(args) = 1 ->
                Value(Num(Abs(args[1].n), args[1].d))
           [] func.name \in {"min", "max"} /\ Len(args) >= 2 ->
                Value(Extreme(func.name, args))
           [] func.name \in {"sin", "cos", "tan", "log", "log10", "round"}
              /\ Len(args) = 1 -> Value(SomeFloat)
           [] func.name = "pow" /\ Len(args) = 2 -> Value(SomeFloat)
           [] OTHER -> EvalRaises("TypeError", "bad arguments")

RECURSIVE Eval(_), EvalAll(_)
\* The values of the nodes of a list, or the first exception.
EvalAll(nodes) ==
    IF nodes = <<>> THEN [exc |-> "none", detail |-> "", v |-> <<>>]
    ELSE LET h == Eval(Head(nodes))
         IN  IF h.exc # "none" THEN h
             ELSE LET t == EvalAll(Tail(nodes))
                  IN  IF t.exc # "none" THEN t
                      ELSE [exc |-> "none", detail |-> "", v |-> <<h.v>> \o t.v]

\* The value of a tree under safe_dict, or the exception evaluating it raises.
Eval(tree) ==
    CASE tree.op = "Constant" ->
           IF tree.id \in Numbers THEN Value(Num(NumberValue(tree.id), 1))
           ELSE Value(Obj("str"))
      [] tree.op = "Tuple" -> Value(Obj("tuple"))
      [] tree.op = "Name" ->
           IF tree.id = "math" THEN Value(Obj("module math"))
           ELSE IF tree.id = "__builtins__" THEN Value(Obj("dict"))
           ELSE IF tree.id \in safe_dict THEN Value(Obj(tree.id))
           ELSE EvalRaises("NameError", "name is not defined")
      [] tree.op = "Attribute" ->
           LET o == Eval(tree.kids[1])
           IN  IF o.exc # "none" THEN o ELSE GetAttr(o.v, tree.id)
      [] tree.op = "UnaryOp" ->
           LET o == Eval(tree.kids[1])
           IN  IF o.exc # "none" THEN o
               ELSE IF o.v.kind = "num"
               THEN Value(IF tree.id = "-" THEN Num(-o.v.n, o.v.d) ELSE o.v)
               ELSE IF o.v = SomeFloat THEN o
               ELSE EvalRaises("TypeError", "bad operand type")
      [] tree.op = "BinOp" ->
           LET k == EvalAll(tree.kids)
           IN  IF k.exc # "none" THEN k ELSE BinOp(tree.id, k.v[1], k.v[2])
      [] tree.op = "Call" ->
           LET k == EvalAll(tree.kids)
           IN  IF k.exc # "none" THEN k ELSE Apply(k.v[1], Tail(k.v))

\* str(result) / int(result) / f"{result:.10g}": a fraction that is not
\* integral stands for its decimal expansion.
FormatResult(v) ==
    IF v.kind = "num"
    THEN IF v.d = 1 THEN <<ToString(v.n)>>
         ELSE <<ToString(v.n), "/", ToString(v.d)>>
    ELSE <<"<", v.name, ">">>

\* The str the except clauses of calculator_tool return for an exception
\* raised in its try block while `tokens` is the expression.
CalculatorError(cls, detail, tokens) ==
    CASE cls = "SyntaxError" ->
           Str(<<"Error: Invalid mathematical expression '">> \o tokens \o <<"'">>)
      [] cls = "ZeroDivisionError" -> Str(<<"Error: Division by zero">>)
      [] cls = "ValueError" -> Str(<<"Error: ">> \o detail)
      [] OTHER -> Str(<<"Error calculating '">> \o tokens \o <<"': ">> \o detail)

UnsafeOperation(id) == <<"Unsafe operation: ", id>>

\* An assignment names a value that was computed once: the one element of
\* the set of what was assigned.
The(S) == CHOOSE x \in S : TRUE

\* The try block of calculator_tool after the rewriting, on the rewritten
\* text: parse, look for unsafe names, evaluate, format.
Calculate(tokens) ==
    The({IF ~parsed.ok THEN CalculatorError("SyntaxError", <<>>, tokens)
         ELSE IF UnsafeNames(parsed.node) # <<>>
         THEN CalculatorError("ValueError",
                              UnsafeOperation(UnsafeNames(parsed.node)[1].id),
                              tokens)
         ELSE The({IF result.exc # "none"
                   THEN CalculatorError(result.exc, <<result.detail>>, tokens)
                   ELSE Str(tokens \o <<" = ">> \o FormatResult(result.v)) :
                      result \in {Eval(parsed.node)}}) :
            parsed \in {ast_parse(tokens)}})

\* tools.py guards `not x or not x.strip()` before its try block: a value
\* that is truthy and not a str has no strip().
calculator_tool(text) ==
    IF text.type = "str" /\ py_strip(text.val) = <<>>
    THEN Returns(Str(<<"Error: Empty expression provided">>))
    ELSE IF text.type # "str" THEN Raises("AttributeError")
    ELSE The({Returns(Calculate(rewritten)) :
                 rewritten \in {Rewritten(py_strip(text.val))}})

\* -------------------------------------------------------------- Time Resolver
\* timezone_aliases as it would be if EST named the fixed-offset zone.
timezone_aliases_fixed_est ==
    {<<"EST", "EST">>, <<"PST", "US/Pacific">>, <<"CST", "US/Central">>,
     <<"MST", "US/Mountain">>, <<"JST", "Asia/Tokyo">>, <<"GMT", "GMT">>,
     <<"CET", "Europe/Paris">>, <<"IST", "Asia/Kolkata">>}

\* The dict timezone_aliases: (alias, zone name) pairs.
timezone_aliases ==
    {<<"EST", "US/Eastern">>, <<"PST", "US/Pacific">>, <<"CST", "US/Central">>,
     <<"MST", "US/Mountain">>, <<"JST", "Asia/Tokyo">>, <<"GMT", "GMT">>,
     <<"CET", "Europe/Paris">>, <<"IST", "Asia/Kolkata">>}

\* str.lower() on the zone names and tokens of the model.
py_lower(text) ==
    CASE text = "UTC" -> "utc" [] text = "GMT" -> "gmt" [] text = "EST" -> "est"
      [] text = "Est" -> "est" [] text = "MST" -> "mst" [] text = "CET" -> "cet"
      [] text = "PST" -> "pst" [] text = "CST" -> "cst" [] text = "JST" -> "jst"
      [] text = "IST" -> "ist" [] text = "BST" -> "bst" [] text = "PDT" -> "pdt"
      [] text = "EDT" -> "edt" [] text = "EST5EDT" -> "est5edt"
      [] text = "PST8PDT" -> "pst8pdt" [] text = "US/Eastern" -> "us/eastern"
      [] text = "US/Pacific" -> "us/pacific" [] text = "US/Central" -> "us/central"
      [] text = "US/Mountain" -> "us/mountain" [] text = "Asia/Tokyo" -> "asia/tokyo"
      [] text = "Europe/Paris" -> "europe/paris"
      [] text = "Europe/London" -> "europe/london"
      [] text = "Asia/Kolkata" -> "asia/kolkata"
      [] text = "Mars/Phobos" -> "mars/phobos"
      [] OTHER -> text

\* dict.get(key, default) on a set of pairs: for a key that is not a str in
\* the dict the default comes back.
AliasLookupFolded(aliases, token) ==
    IF \E p \in aliases : py_lower(p[1]) = py_lower(token)
    THEN (CHOOSE p \in aliases : py_lower(p[1]) = py_lower(token))[2]
    ELSE token

\* timezone_aliases.get(timezone, timezone): the key is compared as written.
AliasLookup(aliases, token) ==
    IF \E p \in aliases : p[1] = token
    THEN (CHOOSE p \in aliases : p[1] = token)[2]
    ELSE token

\* The timezone database behind pytz: for a zone name its offsets from UTC
\* in minutes and its abbreviations, in winter and in summer.
Zone(name, std, dst, std_abbr, dst_abbr) ==
    [name |-> name, std |-> std, dst |-> dst, std_abbr |-> std_abbr,
     dst_abbr |-> dst_abbr]

all_timezones ==
    {Zone("UTC", 0, 0, "UTC", "UTC"),
     Zone("GMT", 0, 0, "GMT", "GMT"),
     Zone("EST", -300, -300, "EST", "EST"),
     Zone("MST", -420, -420, "MST", "MST"),
     Zone("CET", 60, 120, "CET", "CEST"),
     Zone("EST5EDT", -300, -240, "EST", "EDT"),
     Zone("PST8PDT", -480, -420, "PST", "PDT"),
     Zone("US/Eastern", -300, -240, "EST", "EDT"),
     Zone("US/Pacific", -480, -420, "PST", "PDT"),
     Zone("US/Central", -360, -300, "CST", "CDT"),
     Zone("US/Mountain", -420, -360, "MST", "MDT"),
     Zone("Asia/Tokyo", 540, 540, "JST", "JST"),
     Zone("Asia/Kolkata", 330, 330, "IST", "IST"),
     Zone("Europe/Paris", 60, 120, "CET", "CEST"),
     Zone("Europe/London", 0, 60, "GMT", "BST")}

\* pytz.timezone(zone): the zone of that name, or UnknownTimeZoneError.  A
\* pytz release either compares the name as written or folds its case;
\* "UTC" is recognised in any case by both.
pytz_timezone(zone, folds_case) ==
    LET found == {z \in all_timezones :
                     \/ z.name = zone
                     \/ folds_case /\ py_lower(z.name) = py_lower(zone)
                     \/ z.name = "UTC" /\ py_lower(zone) = "utc"}
    IN  IF found = {} THEN [exc |-> "UnknownTimeZoneError", tz |-> Zone("", 0, 0, "", "")]
        ELSE [exc |-> "none", tz |-> CHOOSE z \in found : TRUE]

\* The names of all_timezones whose lower-case form contains the lower-case
\* token, first three in the order of the list.
SimilarZones(token) ==
    CASE py_lower(token) = "pdt" -> <<"PST8PDT">>
      [] py_lower(token) = "edt" -> <<"EST5EDT">>
      [] py_lower(token) = "est" -> <<"EST", "EST5EDT">>
      [] py_lower(token) = "mst" -> <<"MST">>
      [] py_lower(token) = "cet" -> <<"CET">>
      [] py_lower(token) = "gmt" -> <<"GMT">>
      [] py_lower(token) = "pst" -> <<"PST8PDT">>
      [] OTHER -> <<>>

UnknownTimezone(token) ==
    Str(<<"Error: Unknown timezone '", token, "'.">>
        \o (IF SimilarZones(token) = <<>> THEN <<>>
            ELSE <<" Did you mean: ">> \o SimilarZones(token) \o <<"?">>))

\* An instant: the minute of the week in UTC, Monday 00:00 being 0, and the
\* season, which decides whether daylight saving time is in force.
MinutesPerDay == 24 * 60

MinutesPerWeek == 7 * MinutesPerDay

Instants ==
    {[minute |-> m, summer |-> s] :
        m \in {0, 3 * MinutesPerDay + 720, 6 * MinutesPerDay + 1380},
        s \in BOOLEAN}

DayNames == <<"Monday", "Tuesday", "Wednesday", "Thursday", "Friday",
              "Saturday", "Sunday">>

\* utc_now.astimezone(tz) and the two strftime calls: the wall-clock time,
\* the zone abbreviation and the weekday (the date moves with the weekday).
LocalTime(now, tz) ==
    LET offset == IF now.summer THEN tz.dst ELSE tz.std
        local == (now.minute + offset) % MinutesPerWeek
    IN  [hour |-> (local % MinutesPerDay) \div 60,
         minute |-> local % 60,
         abbr |-> IF now.summer THEN tz.dst_abbr ELSE tz.std_abbr,
         day_name |-> DayNames[(local \div MinutesPerDay) + 1]]

CurrentTime(token, local_time) ==
    Str(<<"Current time in ", token, ": ", ToString(local_time.hour), ":",
          ToString(local_time.minute), " ", local_time.abbr, " (",
          local_time.day_name, ")">>)

\* `if not timezone: timezone = "UTC"`: a blank token is truthy.
DefaultTimezone(token) ==
    IF token.type = "str" /\ ~Truthy(token) THEN Str(<<"UTC">>) ELSE token

\* The try block of get_current_time for a str token, at the instant `now`
\* and with the pytz release at hand.
ResolveZone(token, now, folds_case) ==
    LET looked_up == pytz_timezone(token, folds_case)
    IN  IF looked_up.exc # "none" THEN UnknownTimezone(token)
        ELSE CurrentTime(token, LocalTime(now, looked_up.tz))

\* get_current_time at the instant utc_now.  A token that is not a str makes
\* pytz raise; the outer handler turns that into a str.
get_current_time(token) ==
    LET tz == DefaultTimezone(token)
    IN  IF tz.type # "str"
        THEN Returns(Str(<<"Error getting time for timezone '">> \o tz.val
                         \o <<"': ", "AttributeError">>))
        ELSE Returns(ResolveZone(AliasLookup(timezone_aliases, tz.val[1]),
                                 utc_now, pytz_folds_case))

\* ------------------------------------------------------------------ web_search
\* The value of the int literals of the payloads.
IntOf(v) ==
    CASE v.val[1] = "0" -> 0 [] v.val[1] = "1" -> 1 [] v.val[1] = "2" -> 2
      [] v.val[1] = "3" -> 3 [] v.val[1] = "5" -> 5 [] v.val[1] = "6" -> 6

\* `if not isinstance(num_results, int) or num_results < 1 or
\* num_results > 5: num_results = 3`
ValidNumResults(count) ==
    IF count.type # "int" THEN 3
    ELSE IF IntOf(count) < 1 \/ IntOf(count) > 5 THEN 3
    ELSE IntOf(count)

\* What the DuckDuckGo API answered: the decoded JSON object, a field that
\* is absent or empty being "", or the exception requests raised.
Topic(is_dict, text, url) == [dict |-> is_dict, Text |-> text, FirstURL |-> url]

SearchData(answer, kind, abstract, source, url, definition, origin, topics) ==
    [Answer |-> answer, AnswerType |-> kind, Abstract |-> abstract,
     AbstractSource |-> source, AbstractURL |-> url,
     Definition |-> definition, DefinitionSource |-> origin,
     RelatedTopics |-> topics]

NoData == SearchData("", "", "", "", "", "", "", <<>>)

Answered(data) == [exc |-> "none", data |-> data]

RequestFailed(cls) == [exc |-> cls, data |-> NoData]

\* The lines for the instant answer, the abstract and the definition.
AnswerLines(data) ==
    IF data.Answer = "" THEN <<>>
    ELSE << <<"Answer: ", data.Answer>> >>
         \o (IF data.AnswerType = "" THEN <<>>
             ELSE << <<"   Source: ", data.AnswerType>> >>)

AbstractLines(data) ==
    IF data.Abstract = "" THEN <<>>
    ELSE << <<data.Abstract>> >>
         \o (IF data.AbstractSource = "" THEN <<>>
             ELSE << <<"   Source: ", data.AbstractSource>> >>
                  \o (IF data.AbstractURL = "" THEN <<>>
                      ELSE << <<"   URL: ", data.AbstractURL>> >>))

DefinitionLines(data) ==
    IF data.Definition = "" THEN <<>>
    ELSE << <<"Definition: ", data.Definition>> >>
         \o (IF data.DefinitionSource = "" THEN <<>>
             ELSE << <<"   Source: ", data.DefinitionSource>> >>)

\* The loop over the related topics; the texts of the model are shorter than
\* the 200 characters the slice keeps.
RECURSIVE RelatedLines(_)
RelatedLines(topics) ==
    IF topics = <<>> THEN <<>>
    ELSE (IF Head(topics).dict /\ Head(topics).Text # ""
          THEN << <<"Related: ", Head(topics).Text, "...">> >>
               \o (IF Head(topics).FirstURL = "" THEN <<>>
                   ELSE << <<"   URL: ", Head(topics).FirstURL>> >>)
          ELSE <<>>)
         \o RelatedLines(Tail(topics))

\* seq[:n] for n >= 0
Slice(seq, n) == SubSeq(seq, 1, IF n < Len(seq) THEN n ELSE Len(seq))

\* The list `results` when the four checks are done.
CollectResults(data, count) ==
    The({IF data.RelatedTopics # <<>> /\ Len(found) < count
         THEN found \o RelatedLines(Slice(data.RelatedTopics, count - Len(found)))
         ELSE found :
            found \in {AnswerLines(data) \o AbstractLines(data)
                          \o DefinitionLines(data)}})

\* "\n".join(results)
RECURSIVE JoinLines(_)
JoinLines(lines) ==
    IF lines = <<>> THEN <<>>
    ELSE IF Len(lines) = 1 THEN lines[1]
    ELSE lines[1] \o <<"\n">> \o JoinLines(Tail(lines))

SearchResults(terms, lines) ==
    Str(<<"Search results for '">> \o terms.val \o <<"':\n">> \o JoinLines(lines))

NoResultsFound(terms) ==
    Str(<<"No results found for '">> \o terms.val
        \o <<"'. Try rephrasing your search terms.">>)

\* The call _fallback_search(query, num_results): no module defines that
\* name, the call raises NameError.
fallback_search(terms, count) == Raises("NameError")

\* `if not results:` and what follows it in the try block.
FormatResults(terms, count, lines) ==
    IF lines = <<>>
    THEN The({IF search_results.exc # "none" THEN search_results
              ELSE IF Truthy(search_results.value) THEN search_results
              ELSE Returns(NoResultsFound(terms)) :
                 search_results \in {fallback_search(terms, count)}})
    ELSE Returns(SearchResults(terms, lines))

\* The three except clauses of web_search.
SearchCatches(terms, outcome) ==
    CASE outcome.exc = "none" -> outcome.value
      [] outcome.exc = "Timeout" ->
           Str(<<"Error: Search request timed out. Please try again.">>)
      [] outcome.exc = "RequestException" ->
           Str(<<"Error: Network error during search - ", outcome.exc>>)
      [] OTHER ->
           Str(<<"Error searching for '">> \o terms.val \o <<"': ", outcome.exc>>)

\* The try block of web_search on the answer `reply` of the API.
SearchBody(terms, count, reply) ==
    IF reply.exc # "none" THEN Raises(reply.exc)
    ELSE The({FormatResults(terms, count, lines) :
                 lines \in {CollectResults(reply.data, count)}})

\* web_search with the API answering search_data.  The guard `not query or
\* not query.strip()` stands before the try block: a value that is truthy
\* and not a str has no strip().
web_search(terms, count) ==
    IF terms.type = "str" /\ py_strip(terms.val) = <<>>
    THEN Returns(Str(<<"Error: Empty search query provided">>))
    ELSE IF terms.type # "str" THEN Raises("AttributeError")
    ELSE The({Returns(SearchCatches(terms, SearchBody(terms, valid, search_data))) :
                 valid \in {ValidNumResults(count)}})

\* ---------------------------------------------------------- Tool Dispatcher
UnknownToolError(tool_name) == Str(<<"Error: Unknown tool '", tool_name, "'">>)

ExecutionError(tool_name, cls) == Str(<<"Error executing ", tool_name, ": ", cls>>)

\* The try block of call_appropriate_tool: the if/elif chain on the name.
\* arguments.get raises AttributeError when the payload is not a dict.
ToolBody(tool_name, arguments) ==
    CASE tool_name = "calculator_tool" ->
           IF arguments.type # "dict" THEN Raises("AttributeError")
           ELSE calculator_tool(DictGet(arguments, "expression", Str(<<"">>)))
      [] tool_name = "get_current_time" ->
           IF arguments.type # "dict" THEN Raises("AttributeError")
           ELSE get_current_time(DictGet(arguments, "timezone", Str(<<"UTC">>)))
      [] tool_name = "web_search" ->
           IF arguments.type # "dict" THEN Raises("AttributeError")
           ELSE web_search(DictGet(arguments, "query", Str(<<"">>)),
                           DictGet(arguments, "num_results", PyInt("3")))
      [] OTHER -> Returns(UnknownToolError(tool_name))

\* The handler as it would be if it named one exception class.
DispatcherCatchesValueError(cls) == cls = "ValueError"

\* `except Exception` of call_appropriate_tool
DispatcherCatches(cls) == cls \in ExceptionClasses

\* The outcome of call_appropriate_tool: the str it returns, or the class
\* of an exception its handler does not catch.
call_appropriate_tool(tool_name, arguments) ==
    LET r == ToolBody(tool_name, arguments)
    IN  IF r.exc # "none" /\ DispatcherCatches(r.exc)
        THEN Returns(ExecutionError(tool_name, r.exc))
        ELSE r

\* ------------------------------------------------------------ Model Gateway
\* The ToolCallRequests (name, argument text) the gateway may issue in the
\* session: a known tool, an unknown tool, and undecodable arguments.  The
\* dispatcher itself is exercised on every name and payload by SpecDispatch.
GatewayRequests == {<<"calculator_tool", ARGS_STR>>,
                    <<"no_such_tool", ARGS_EMPTY>>,
                    <<"get_current_time", ARGS_MALFORMED>>}

\* The content of the k-th response of a query: text, or null.
Contents(k) == {None, Str(<<"The answer is 42">>)}

\* A ToolCallRequest: the gateway numbers its calls, so no id is reused.
ToolCall(id, name, arguments) == [id |-> id, name |-> name, arguments |-> arguments]

RECURSIVE CallBatches(_, _)
CallBatches(n, first_id) ==
    IF n = 0 THEN {<<>>}
    ELSE LET shorter == CallBatches(n - 1, first_id)
         IN  shorter \cup
             {Append(b, ToolCall(first_id + Len(b), r[1], r[2])) :
                 b \in {x \in shorter : Len(x) = n - 1}, r \in GatewayRequests}

\* The responses the gateway may give to the k-th invocation of a query
\* when `used` tool calls were requested so far in the session.
Responses(k, used) ==
    LET room == IF MaxToolCalls - used < MaxCalls
                THEN MaxToolCalls - used ELSE MaxCalls
    IN  {[content |-> c, tool_calls |-> b] :
            c \in Contents(k), b \in CallBatches(room, used + 1)}

NoResponse == [content |-> None, tool_calls |-> <<>>]

\* ------------------------------------------------------------- the keyboard
\* The lines input() may return.
Lines == {"quit", "EXIT", " q ", "", "   ", " What is 6*7 "}

\* str.strip() on those lines
Strip(line) ==
    CASE line = " q " -> "q"
      [] line = "   " -> ""
      [] line = " What is 6*7 " -> "What is 6*7"
      [] OTHER -> line

\* Lower as it would be if the line were compared as typed.
LowerAsTyped(text) == text

\* str.lower() on the stripped lines
Lower(text) ==
    CASE text = "EXIT" -> "exit"
      [] text = "What is 6*7" -> "what is 6*7"
      [] OTHER -> text

QuitWords == {"quit", "exit", "q"}

\* ------------------------------------------------------- exception handling
CommunicationError(detail) == Str(<<"Error communicating with OpenAI: ", detail>>)

\* The handler as it would be if it caught transport errors only.
LoopCatchesTransportOnly(cls) == cls = "Exception"

\* The handler as it would be with a bare `except:`.
LoopCatchesEverything(cls) == TRUE

\* `except Exception` of chat_with_llm
LoopCatches(cls) == cls \in ExceptionClasses

\* `except Exception` of chat_interface, around chat_with_llm and the print
InterfaceCatches(cls) == cls \in ExceptionClasses

\* The locals of chat_with_llm do not outlive the call.
DropLocals ==
    /\ response_message' = NoResponse
    /\ final_response' = NoResponse
    /\ final_content' = None
    /\ chained_response' = NoResponse
    /\ i' = 0
    /\ function_name' = ""
    /\ function_args' = PyNull
    /\ tool_result' = None

\* chat_interface is left, by break or by an exception: its locals go with
\* its frame, the global chat_history stays until the process ends.
LeaveInterface(code) ==
    /\ pc' = "exited"
    /\ exit_code' = code
    /\ user_input' = Str(<<"">>)
    /\ messages' = <<>>
    /\ response' = None
    /\ chat_history' = chat_history

\* An exception leaves chat_with_llm and reaches chat_interface: its inner
\* handler pops the transcript and goes on; anything else is re-raised to
\* main, which exits with 0 on KeyboardInterrupt and with 1 otherwise.
Propagate(cls) ==
    /\ raised' = cls
    /\ IF InterfaceCatches(cls)
       THEN /\ messages' = SubSeq(messages, 1, Len(messages) - 1)
            /\ pc' = "input"
            /\ UNCHANGED <<chat_history, user_input, response, exit_code>>
       ELSE LeaveInterface(IF cls = "KeyboardInterrupt" THEN 0 ELSE 1)

\* An exception is raised inside the try block of chat_with_llm.
RaiseInLoop(cls) ==
    /\ DropLocals
    /\ IF LoopCatches(cls)
       THEN /\ response' = CommunicationError(cls)
            /\ raised' = cls
            /\ pc' = "print"
            /\ UNCHANGED <<chat_history, user_input, messages, exit_code>>
       ELSE Propagate(cls)

\* ReturnFromLoop as it would be if the branch ended without a return.
ReturnNothing(value) ==
    /\ DropLocals
    /\ response' = None
    /\ pc' = "print"
    /\ UNCHANGED <<chat_history, user_input, messages, exit_code, raised>>

\* chat_with_llm returns `value` to chat_interface.
ReturnFromLoop(value) ==
    /\ DropLocals
    /\ response' = value
    /\ pc' = "print"
    /\ UNCHANGED <<chat_history, user_input, messages, exit_code, raised>>

\* ------------------------------------------------------------------ actions
\* No capability is running; the clock and the pytz release are those of
\* the session.
\* web_search is not running; the API has an abstract for every request.
SearchIdle ==
    /\ query = None
    /\ num_results = 0
    /\ results = <<>>
    /\ search_data = Answered(SearchData("", "", "TLA+ is a specification language",
                                         "Wikipedia", "", "", "", <<>>))

ToolsIdle ==
    /\ expression = None
    /\ node = NoNode
    /\ timezone = None
    /\ utc_now = [minute |-> 0, summer |-> FALSE]
    /\ pytz_folds_case = TRUE
    /\ SearchIdle

Init ==
    /\ chat_history = <<>>
    /\ pc = "input"
    /\ user_input = Str(<<"">>)
    /\ messages = <<>>
    /\ response = None
    /\ response_message = NoResponse
    /\ final_response = NoResponse
    /\ final_content = None
    /\ chained_response = NoResponse
    /\ i = 0
    /\ function_name = ""
    /\ function_args = PyNull
    /\ tool_result = None
    /\ tool_total = 0
    /\ gateway_calls = 0
    /\ batches = 0
    /\ raised = "none"
    /\ last_response = NoResponse
    /\ history_before = <<>>
    /\ exit_code = -1
    /\ input_line = ""
    /\ ToolsIdle

\* Every line read starts a round of its own: the history variables tell
\* of the line being handled.
NewRound ==
    /\ gateway_calls' = 0
    /\ batches' = 0
    /\ raised' = "none"
    /\ last_response' = NoResponse
    /\ history_before' = chat_history

\* chat_interface: quit, exit or q ends the loop and main returns.
Quit ==
    /\ pc = "input"
    /\ \E line \in Lines :
          /\ Lower(Strip(line)) \in QuitWords
          /\ input_line' = line
          /\ LeaveInterface(0)
    /\ NewRound
    /\ UNCHANGED <<locals, tool_total>>
    /\ UNCHANGED toolvars

\* chat_interface: an empty line is skipped; user_input is rebound.
EmptyLine ==
    /\ pc = "input"
    /\ \E line \in Lines :
          /\ Lower(Strip(line)) \notin QuitWords
          /\ Strip(line) = ""
          /\ input_line' = line
          /\ user_input' = Str(<<Strip(line)>>)
    /\ NewRound
    /\ UNCHANGED <<chat_history, pc, messages, response, locals, tool_total,
                   exit_code>>
    /\ UNCHANGED toolvars

\* StartQuery as it would be if the list of Turns were extended, not rebuilt.
StartQueryExtending ==
    /\ pc = "input"
    /\ \E line \in Lines :
          /\ Lower(Strip(line)) \notin QuitWords
          /\ Strip(line) # ""
          /\ input_line' = line
          /\ user_input' = Str(<<Strip(line)>>)
          /\ messages' = messages \o build_prompt_windowed(chat_history, Str(<<Strip(line)>>))
    /\ pc' = "invoke1"
    /\ NewRound
    /\ UNCHANGED <<chat_history, response, locals, tool_total, exit_code>>
    /\ UNCHANGED toolvars

\* chat_interface: any other line starts a query with a fresh transcript.
StartQuery ==
    /\ pc = "input"
    /\ \E line \in Lines :
          /\ Lower(Strip(line)) \notin QuitWords
          /\ Strip(line) # ""
          /\ input_line' = line
          /\ user_input' = Str(<<Strip(line)>>)
          /\ messages' = build_prompt_windowed(chat_history, Str(<<Strip(line)>>))
    /\ pc' = "invoke1"
    /\ NewRound
    /\ UNCHANGED <<chat_history, response, locals, tool_total, exit_code>>
    /\ UNCHANGED toolvars

\* The session asks no further query once MaxHistory Exchanges are stored.
Query == Len(chat_history) < MaxHistory /\ StartQuery

\* AssistantTurn as it would be if only the content were appended.
AssistantTurnWithoutCalls(content, tool_calls) ==
    Turn("assistant", content, <<>>, 0)

\* The assistant Turn chat_with_llm appends for a response with tool_calls.
AssistantTurn(content, tool_calls) ==
    Turn("assistant", content,
         [n \in 1..Len(tool_calls) |->
             [id |-> tool_calls[n].id, type |-> "function",
              name |-> tool_calls[n].name,
              arguments |-> tool_calls[n].arguments]],
         0)

\* ToolTurn as it would be if the tool_call_id key were left out.
ToolTurnWithoutId(tool_call, result) == Turn("tool", result, <<>>, 0)

\* The tool Turn chat_with_llm appends for a dispatched call.
ToolTurn(tool_call, result) == Turn("tool", result, <<>>, tool_call.id)

\* chat_with_llm: the first gateway call answers.
Invoke1 ==
    /\ pc = "invoke1"
    /\ \E resp \in Responses(1, tool_total) :
          /\ tool_total' = tool_total + Len(resp.tool_calls)
          /\ IF resp.tool_calls # <<>>
             THEN /\ response_message' = resp
                  /\ messages' = Append(messages,
                                        AssistantTurn(resp.content, resp.tool_calls))
                  /\ i' = 1
                  /\ batches' = batches + 1
                  /\ pc' = "dispatch1"
                  /\ UNCHANGED <<chat_history, user_input, response, final_response,
                                 final_content, chained_response, function_name,
                                 function_args, tool_result, exit_code, raised>>
             ELSE /\ ReturnFromLoop(resp.content)
                  /\ batches' = batches
          /\ last_response' = resp
    /\ gateway_calls' = gateway_calls + 1
    /\ UNCHANGED history_before
    /\ UNCHANGED <<input_line, toolvars>>

\* DispatchCall as it would be if the batch were walked from its last call.
DispatchCallReversed ==
    /\ pc \in {"dispatch1", "dispatch2"}
    /\ LET calls == IF pc = "dispatch1" THEN response_message.tool_calls
                    ELSE final_response.tool_calls
           tool_call == calls[Len(calls) + 1 - i]
           decoded == json_loads(tool_call.arguments)
           outcome == call_appropriate_tool(tool_call.name, decoded.value)
       IN  IF decoded.exc # "none" THEN RaiseInLoop(decoded.exc)
           ELSE IF outcome.exc # "none" THEN RaiseInLoop(outcome.exc)
           ELSE /\ function_name' = tool_call.name
                /\ function_args' = decoded.value
                /\ tool_result' = outcome.value
                /\ messages' = Append(messages, ToolTurn(tool_call, outcome.value))
                /\ IF i < Len(calls)
                   THEN i' = i + 1 /\ pc' = pc
                   ELSE i' = 0 /\
                        pc' = IF pc = "dispatch1" THEN "invoke2" ELSE "invoke3"
                /\ UNCHANGED <<chat_history, user_input, response, response_message,
                               final_response, final_content, chained_response,
                               exit_code, raised>>
    /\ UNCHANGED <<tool_total, gateway_calls, batches, last_response,
                   history_before>>
    /\ UNCHANGED <<input_line, toolvars>>

\* chat_with_llm: one iteration of a for loop over the tool calls.
DispatchCall ==
    /\ pc \in {"dispatch1", "dispatch2"}
    /\ LET calls == IF pc = "dispatch1" THEN response_message.tool_calls
                    ELSE final_response.tool_calls
           tool_call == calls[i]
           decoded == json_loads(tool_call.arguments)
           outcome == call_appropriate_tool(tool_call.name, decoded.value)
       IN  IF decoded.exc # "none" THEN RaiseInLoop(decoded.exc)
           ELSE IF outcome.exc # "none" THEN RaiseInLoop(outcome.exc)
           ELSE /\ function_name' = tool_call.name
                /\ function_args' = decoded.value
                /\ tool_result' = outcome.value
                /\ messages' = Append(messages, ToolTurn(tool_call, outcome.value))
                /\ IF i < Len(calls)
                   THEN i' = i + 1 /\ pc' = pc
                   ELSE i' = 0 /\
                        pc' = IF pc = "dispatch1" THEN "invoke2" ELSE "invoke3"
                /\ UNCHANGED <<chat_history, user_input, response, response_message,
                               final_response, final_content, chained_response,
                               exit_code, raised>>
    /\ UNCHANGED <<tool_total, gateway_calls, batches, last_response,
                   history_before>>
    /\ UNCHANGED <<input_line, toolvars>>

\* chat_with_llm: the second gateway call answers.
Invoke2 ==
    /\ pc = "invoke2"
    /\ \E resp \in Responses(2, tool_total) :
          /\ tool_total' = tool_total + Len(resp.tool_calls)
          /\ IF resp.tool_calls # <<>>
             THEN /\ final_response' = resp
                  /\ final_content' = resp.content
                  /\ messages' = Append(messages,
                                        AssistantTurn(resp.content, resp.tool_calls))
                  /\ i' = 1
                  /\ batches' = batches + 1
                  /\ pc' = "dispatch2"
                  /\ UNCHANGED <<chat_history, user_input, response, response_message,
                                 chained_response, function_name, function_args,
                                 tool_result, exit_code, raised>>
             ELSE /\ ReturnFromLoop(resp.content)
                  /\ batches' = batches
          /\ last_response' = resp
    /\ gateway_calls' = gateway_calls + 1
    /\ UNCHANGED history_before
    /\ UNCHANGED <<input_line, toolvars>>

\* ContentOr as it would be if the third content were returned as it is.
ContentOnly(content, fallback) == content

\* `chained_response...content or final_content`
ContentOr(content, fallback) == IF Truthy(content) THEN content ELSE fallback

\* Invoke3 as it would be if the chain check were repeated without a bound.
Invoke3Unbounded ==
    /\ pc = "invoke3"
    /\ \E resp \in Responses(3, tool_total) :
          /\ tool_total' = tool_total + Len(resp.tool_calls)
          /\ IF resp.tool_calls # <<>>
             THEN /\ final_response' = resp
                  /\ final_content' = resp.content
                  /\ messages' = Append(messages,
                                        AssistantTurn(resp.content, resp.tool_calls))
                  /\ i' = 1
                  /\ batches' = batches + 1
                  /\ pc' = "dispatch2"
                  /\ UNCHANGED <<chat_history, user_input, response, response_message,
                                 chained_response, function_name, function_args,
                                 tool_result, exit_code, raised>>
             ELSE /\ ReturnFromLoop(ContentOr(resp.content, final_content))
                  /\ batches' = batches
          /\ last_response' = resp
    /\ gateway_calls' = gateway_calls + 1
    /\ UNCHANGED history_before
    /\ UNCHANGED <<input_line, toolvars>>

\* chat_with_llm: the third gateway call answers; its tool_calls are not read.
Invoke3 ==
    /\ pc = "invoke3"
    /\ \E resp \in Responses(3, tool_total) :
          /\ tool_total' = tool_total + Len(resp.tool_calls)
          /\ ReturnFromLoop(ContentOr(resp.content, final_content))
          /\ last_response' = resp
    /\ gateway_calls' = gateway_calls + 1
    /\ UNCHANGED <<batches, history_before>>
    /\ UNCHANGED <<input_line, toolvars>>

\* A gateway call raises (transport failure, timeout, API error).
GatewayError ==
    /\ pc \in {"invoke1", "invoke2", "invoke3"}
    /\ gateway_calls' = gateway_calls + 1
    /\ RaiseInLoop("Exception")
    /\ UNCHANGED <<tool_total, batches, last_response, history_before>>
    /\ UNCHANGED <<input_line, toolvars>>

\* Ctrl-C while the session waits for the keyboard, the gateway or a tool,
\* or while it prints the answer.
Interrupt ==
    /\ pc # "exited"
    /\ IF pc \in {"input", "print"}
       THEN Propagate("KeyboardInterrupt") /\ UNCHANGED locals
       ELSE RaiseInLoop("KeyboardInterrupt")
    /\ UNCHANGED <<tool_total, gateway_calls, batches, last_response,
                   history_before>>
    /\ UNCHANGED <<input_line, toolvars>>

\* chat_interface: print the answer and record the Exchange.
Record ==
    /\ pc = "print"
    /\ chat_history' = add_to_chat_history(chat_history, user_input, response)
    /\ pc' = "input"
    /\ UNCHANGED <<user_input, messages, response, locals, tool_total,
                   gateway_calls, batches, raised, last_response, history_before,
                   exit_code>>
    /\ UNCHANGED <<input_line, toolvars>>

Next ==
    \/ Quit
    \/ EmptyLine
    \/ Query
    \/ Invoke1
    \/ DispatchCall
    \/ Invoke2
    \/ Invoke3
    \/ GatewayError
    \/ Interrupt
    \/ Record

Spec == Init /\ [][Next]_vars

\* ------------------------------------------------- the dispatcher on its own
\* call_appropriate_tool applied to every name and every decoded payload.
DispatchNames == {"calculator_tool", "get_current_time", "web_search",
                  "no_such_tool", "", "Calculator_Tool", "calculator", "time",
                  "search"}

DispatchPayloads ==
    {json_loads(t).value : t \in {x \in ArgTexts : json_loads(x).exc = "none"}}

InitDispatch ==
    /\ chat_history = <<>>
    /\ pc = "dispatcher"
    /\ user_input = Str(<<"">>)
    /\ messages = <<>>
    /\ response = None
    /\ response_message = NoResponse
    /\ final_response = NoResponse
    /\ final_content = None
    /\ chained_response = NoResponse
    /\ i = 0
    /\ function_name \in DispatchNames
    /\ function_args \in DispatchPayloads
    /\ tool_result = None
    /\ tool_total = 0
    /\ gateway_calls = 0
    /\ batches = 0
    /\ raised = "none"
    /\ last_response = NoResponse
    /\ history_before = <<>>
    /\ exit_code = -1
    /\ input_line = ""
    /\ ToolsIdle

Dispatch ==
    /\ pc = "dispatcher"
    /\ LET outcome == call_appropriate_tool(function_name, function_args)
       IN  /\ tool_result' = outcome.value
           /\ raised' = outcome.exc
           /\ pc' = IF outcome.exc = "none" THEN "dispatched" ELSE "raised"
    /\ UNCHANGED <<chat_history, user_input, messages, response, response_message,
                   final_response, final_content, chained_response, i,
                   function_name, function_args, tool_total, gateway_calls,
                   batches, last_response, history_before, exit_code>>
    /\ UNCHANGED <<input_line, toolvars>>

NextDispatch == Dispatch

SpecDispatch == InitDispatch /\ [][NextDispatch]_vars

\* ------------------------------------------------ the prompt builder on its own
\* build_prompt_windowed applied, by the first step of a query, to every
\* history of up to MaxPromptHistory Exchanges.
PromptExchanges ==
    {[user |-> Str(<<u>>), ai |-> a] :
        u \in {"What is 6*7", "What time is it in EST"},
        a \in {None, Str(<<"The answer is 42">>)}}

RECURSIVE Histories(_)
Histories(n) ==
    IF n = 0 THEN {<<>>}
    ELSE LET shorter == Histories(n - 1)
         IN  shorter \cup
             {Append(h, e) : h \in {x \in shorter : Len(x) = n - 1},
                             e \in PromptExchanges}

InitPrompt ==
    /\ chat_history \in Histories(MaxPromptHistory)
    /\ pc = "input"
    /\ user_input = Str(<<"">>)
    /\ messages = <<>>
    /\ response = IF chat_history = <<>> THEN None
                  ELSE chat_history[Len(chat_history)].ai
    /\ response_message = NoResponse
    /\ final_response = NoResponse
    /\ final_content = None
    /\ chained_response = NoResponse
    /\ i = 0
    /\ function_name = ""
    /\ function_args = PyNull
    /\ tool_result = None
    /\ tool_total = 0
    /\ gateway_calls = 0
    /\ batches = 0
    /\ raised = "none"
    /\ last_response = NoResponse
    /\ history_before = <<>>
    /\ exit_code = -1
    /\ input_line = ""
    /\ ToolsIdle

NextPrompt == StartQuery

SpecPrompt == InitPrompt /\ [][NextPrompt]_vars

\* --------------------------------------------------- the capabilities on their own
\* The variables of the session, which a capability called on its own
\* neither reads nor writes.
sessionvars == <<chat_history, user_input, messages, response, response_message,
                 final_response, final_content, chained_response, i, tool_total,
                 gateway_calls, batches, last_response, history_before,
                 exit_code, input_line>>

NoSession ==
    /\ chat_history = <<>>
    /\ user_input = Str(<<"">>)
    /\ messages = <<>>
    /\ response = None
    /\ response_message = NoResponse
    /\ final_response = NoResponse
    /\ final_content = None
    /\ chained_response = NoResponse
    /\ i = 0
    /\ tool_total = 0
    /\ gateway_calls = 0
    /\ batches = 0
    /\ last_response = NoResponse
    /\ history_before = <<>>
    /\ exit_code = -1
    /\ input_line = ""

\* ------------------------------------------------ calculator_tool step by step
\* The expression texts the dispatcher hands to calculator_tool.
CalcExpressions ==
    {<<"2", "+", "3", "*", "4">>,
     <<"2", "*", "3", "+", "4">>,
     <<"7", "-", "3", "-", "2">>,
     <<"8", "/", "4", "/", "2">>,
     <<"7", "/", "2">>,
     <<"6", "*", "7">>,
     <<"   ", "6", "*", "7", "   ">>,
     <<"(", "2", "+", "3", ")", "*", "4">>,
     <<"-", "2", "+", "3", "*", "4">>,
     <<"(", "8", ")", "/", "2">>,
     <<"(", "7", ")", "/", "2">>,
     <<"-", "8", "/", "4", "/", "2">>,
     <<"sqrt", "(", "16", ")", "+", "2">>,
     <<"abs", "(", "-", "3", ")", "*", "2">>,
     <<"(", "sqrt", "(", "16", ")", ")">>,
     <<"-", "abs", "(", "-", "3", ")">>,
     <<"-", "min", "(", "1", ",", "2", ")">>,
     <<"(", "pi", ")">>,
     <<"(", "2", ")", "^", "3">>,
     <<"(", "2", ")", "**", "3">>,
     <<"(", "pow", "(", "2", ",", "3", ")", ")">>,
     <<"1", "/", "0">>,
     <<"(", "1", ")", "/", "0">>,
     <<"sqrt", "(", "-", "1", ")">>,
     <<"(", "sqrt", "(", "-", "1", ")", ")">>,
     <<"15", "%", "of", "847">>,
     <<"15", "percent", "of", "847">>,
     <<"15", "percentage", "of", "847">>,
     <<"100", "%", "of", "8">>,
     <<"__import__", "(", "'os'", ")">>,
     <<"(", "__import__", "(", "'os'", ")", ")">>,
     <<"-", "foo">>,
     <<"-", "foo", "(", "2", ")">>,
     <<"(", ")", ".", "__class__">>,
     <<"(", "math", ")", ".", "__dict__">>,
     <<"-", "abs", ".", "__class__">>,
     <<"(", "2", "+">>,
     <<"   ">>,
     <<"">>}

CalcPayloads ==
    {PyDict({<<"expression", Str(e)>>}) : e \in CalcExpressions}
    \cup {PyDict({}), PyDict({<<"expression", PyInt("5")>>})}

InitCalc ==
    /\ NoSession
    /\ pc = "calc_call"
    /\ function_name = "calculator_tool"
    /\ function_args \in CalcPayloads
    /\ tool_result = None
    /\ raised = "none"
    /\ ToolsIdle
    /\ SearchIdle

\* The call of call_appropriate_tool, the guard before the try block, and
\* expression.strip().
CalcEnter ==
    /\ pc = "calc_call"
    /\ LET text == DictGet(function_args, "expression", Str(<<"">>))
       IN  IF text.type = "str" /\ py_strip(text.val) = <<>>
           THEN /\ tool_result' = Str(<<"Error: Empty expression provided">>)
                /\ pc' = "calc_done"
                /\ UNCHANGED <<expression, raised>>
           ELSE IF text.type # "str"
           THEN /\ raised' = "AttributeError"
                /\ pc' = "calc_raised"
                /\ UNCHANGED <<expression, tool_result>>
           ELSE /\ expression' = Str(py_strip(text.val))
                /\ pc' = "calc_rewrite"
                /\ UNCHANGED <<tool_result, raised>>
    /\ UNCHANGED <<sessionvars, searchvars, function_name, function_args, node, timezone,
                   utc_now, pytz_folds_case>>

\* The loop over the replacements.
CalcRewrite ==
    /\ pc = "calc_rewrite"
    /\ expression' = Str(Rewritten(expression.val))
    /\ pc' = "calc_parse"
    /\ UNCHANGED <<sessionvars, searchvars, function_name, function_args, tool_result,
                   raised, node, timezone, utc_now, pytz_folds_case>>

\* ast.parse, and the except clause for SyntaxError.
CalcParse ==
    /\ pc = "calc_parse"
    /\ LET parsed == ast_parse(expression.val)
       IN  IF parsed.ok
           THEN /\ node' = parsed.node
                /\ pc' = "calc_check"
                /\ UNCHANGED <<tool_result, raised>>
           ELSE /\ raised' = "SyntaxError"
                /\ tool_result' = CalculatorError("SyntaxError", <<>>, expression.val)
                /\ pc' = "calc_done"
                /\ UNCHANGED node
    /\ UNCHANGED <<sessionvars, searchvars, function_name, function_args, expression,
                   timezone, utc_now, pytz_folds_case>>

\* The loop over ast.walk(node), and the except clause for ValueError.
CalcCheck ==
    /\ pc = "calc_check"
    /\ IF UnsafeNames(node) # <<>>
       THEN /\ raised' = "ValueError"
            /\ tool_result' = CalculatorError("ValueError",
                                  UnsafeOperation(UnsafeNames(node)[1].id),
                                  expression.val)
            /\ pc' = "calc_done"
       ELSE /\ pc' = "calc_eval"
            /\ UNCHANGED <<tool_result, raised>>
    /\ UNCHANGED <<sessionvars, searchvars, function_name, function_args, expression, node,
                   timezone, utc_now, pytz_folds_case>>

\* eval(compile(node)), the formatting of the result, and the except clauses.
CalcEval ==
    /\ pc = "calc_eval"
    /\ LET result == Eval(node)
       IN  IF result.exc # "none"
           THEN /\ raised' = result.exc
                /\ tool_result' = CalculatorError(result.exc, <<result.detail>>,
                                                  expression.val)
           ELSE /\ tool_result' = Str(expression.val \o <<" = ">>
                                      \o FormatResult(result.v))
                /\ UNCHANGED raised
    /\ pc' = "calc_done"
    /\ UNCHANGED <<sessionvars, searchvars, function_name, function_args, expression, node,
                   timezone, utc_now, pytz_folds_case>>

NextCalc ==
    \/ CalcEnter
    \/ CalcRewrite
    \/ CalcParse
    \/ CalcCheck
    \/ CalcEval

SpecCalc == InitCalc /\ [][NextCalc]_vars

\* ----------------------------------------------- get_current_time step by step
\* The timezone tokens the dispatcher hands to get_current_time.
TimeTokens ==
    {"EST", "PST", "CST", "MST", "JST", "GMT", "CET", "IST", "BST", "PDT",
     "EDT", "est", "Est", "gmt", "UTC", "US/Eastern", "US/Pacific",
     "US/Central", "US/Mountain", "Asia/Tokyo", "Europe/Paris",
     "Asia/Kolkata", "Europe/London", "Mars/Phobos", "", "   "}

TimePayloads ==
    {PyDict({<<"timezone", Str(<<t>>)>>}) : t \in TimeTokens}
    \cup {PyDict({}), PyDict({<<"timezone", PyInt("5")>>})}

InitTime ==
    /\ NoSession
    /\ pc = "time_call"
    /\ function_name = "get_current_time"
    /\ function_args \in TimePayloads
    /\ tool_result = None
    /\ raised = "none"
    /\ expression = None
    /\ node = NoNode
    /\ timezone = None
    /\ utc_now \in Instants
    /\ pytz_folds_case \in BOOLEAN
    /\ SearchIdle

\* The call of call_appropriate_tool and the default for a falsy token.
TimeEnter ==
    /\ pc = "time_call"
    /\ timezone' = DefaultTimezone(DictGet(function_args, "timezone", Str(<<"UTC">>)))
    /\ pc' = "time_alias"
    /\ UNCHANGED <<sessionvars, searchvars, function_name, function_args, tool_result,
                   raised, expression, node, utc_now, pytz_folds_case>>

\* timezone = timezone_aliases.get(timezone, timezone)
TimeAlias ==
    /\ pc = "time_alias"
    /\ timezone' = IF timezone.type = "str"
                   THEN Str(<<AliasLookup(timezone_aliases, timezone.val[1])>>)
                   ELSE timezone
    /\ pc' = "time_lookup"
    /\ UNCHANGED <<sessionvars, searchvars, function_name, function_args, tool_result,
                   raised, expression, node, utc_now, pytz_folds_case>>

\* pytz.timezone(timezone), the conversion of utc_now and the formatting; the
\* handlers of UnknownTimeZoneError and of Exception.
TimeLookup ==
    /\ pc = "time_lookup"
    /\ IF timezone.type # "str"
       THEN /\ raised' = "AttributeError"
            /\ tool_result' = Str(<<"Error getting time for timezone '">>
                                  \o timezone.val \o <<"': ", "AttributeError">>)
       ELSE /\ raised' = pytz_timezone(timezone.val[1], pytz_folds_case).exc
            /\ tool_result' = ResolveZone(timezone.val[1], utc_now, pytz_folds_case)
    /\ pc' = "time_done"
    /\ UNCHANGED <<sessionvars, searchvars, function_name, function_args, timezone,
                   expression, node, utc_now, pytz_folds_case>>

NextTime ==
    \/ TimeEnter
    \/ TimeAlias
    \/ TimeLookup

SpecTime == InitTime /\ [][NextTime]_vars

\* ----------------------------------------------------- web_search on its own
\* web_search, statement by statement, on every payload and every answer of
\* the API.
SearchTopicLists ==
    {<<>>,
     <<Topic(TRUE, "TLA+ tools", "https://t/1")>>,
     <<Topic(TRUE, "TLA+ tools", "https://t/1"), Topic(TRUE, "TLC", ""),
       Topic(TRUE, "PlusCal", "https://t/3")>>,
     <<Topic(TRUE, "", "")>>,
     <<Topic(FALSE, "", ""), Topic(TRUE, "TLC", "")>>}

SearchReplies ==
    {Answered(SearchData(a, at, b, bs, bu, d, ds, t)) :
        a \in {"", "42"}, at \in {"", "calc"},
        b \in {"", "TLA+ is a specification language"},
        bs \in {"", "Wikipedia"}, bu \in {"", "https://w/TLA"},
        d \in {"", "a formal language"}, ds \in {"", "Dictionary"},
        t \in SearchTopicLists}
    \cup {RequestFailed(cls) : cls \in {"Timeout", "RequestException", "ValueError"}}

SearchPayloads ==
    {PyDict({<<"query", Str(<<"tla">>)>>}),
     PyDict({<<"query", Str(<<"tla">>)>>, <<"num_results", PyInt("1")>>}),
     PyDict({<<"query", Str(<<"tla">>)>>, <<"num_results", PyInt("2")>>}),
     PyDict({<<"query", Str(<<"tla">>)>>, <<"num_results", PyInt("5")>>}),
     PyDict({<<"query", Str(<<"tla">>)>>, <<"num_results", PyInt("0")>>}),
     PyDict({<<"query", Str(<<"tla">>)>>, <<"num_results", PyInt("6")>>}),
     PyDict({<<"query", Str(<<"tla">>)>>, <<"num_results", Str(<<"2">>)>>}),
     PyDict({<<"query", Str(<<"">>)>>}),
     PyDict({<<"query", Str(<<"   ">>)>>}),
     PyDict({<<"query", PyInt("5")>>}),
     PyDict({})}

InitSearch ==
    /\ NoSession
    /\ pc = "search_call"
    /\ function_name = "web_search"
    /\ function_args \in SearchPayloads
    /\ tool_result = None
    /\ raised = "none"
    /\ expression = None
    /\ node = NoNode
    /\ timezone = None
    /\ utc_now = [minute |-> 0, summer |-> FALSE]
    /\ pytz_folds_case = TRUE
    /\ query = None
    /\ num_results = 0
    /\ results = <<>>
    /\ search_data \in SearchReplies

\* The call of call_appropriate_tool, the guard and the check of num_results.
SearchEnter ==
    /\ pc = "search_call"
    /\ LET terms == DictGet(function_args, "query", Str(<<"">>))
           count == DictGet(function_args, "num_results", PyInt("3"))
       IN  IF terms.type = "str" /\ py_strip(terms.val) = <<>>
           THEN /\ tool_result' = Str(<<"Error: Empty search query provided">>)
                /\ pc' = "search_done"
                /\ UNCHANGED <<query, num_results, raised>>
           ELSE IF terms.type # "str"
           THEN /\ raised' = "AttributeError"
                /\ pc' = "search_raised"
                /\ UNCHANGED <<query, num_results, tool_result>>
           ELSE /\ query' = terms
                /\ num_results' = ValidNumResults(count)
                /\ pc' = "search_request"
                /\ UNCHANGED <<tool_result, raised>>
    /\ UNCHANGED <<sessionvars, function_name, function_args, expression, node,
                   timezone, utc_now, pytz_folds_case, results, search_data>>

\* requests.get, raise_for_status and response.json(), and the except
\* clauses for what they raise.
SearchRequest ==
    /\ pc = "search_request"
    /\ IF search_data.exc # "none"
       THEN /\ raised' = search_data.exc
            /\ tool_result' = SearchCatches(query, Raises(search_data.exc))
            /\ pc' = "search_done"
       ELSE /\ pc' = "search_collect"
            /\ UNCHANGED <<tool_result, raised>>
    /\ UNCHANGED <<sessionvars, function_name, function_args, expression, node,
                   timezone, utc_now, pytz_folds_case, searchvars>>

\* The four checks that fill `results`.
SearchCollect ==
    /\ pc = "search_collect"
    /\ results' = CollectResults(search_data.data, num_results)
    /\ pc' = "search_format"
    /\ UNCHANGED <<sessionvars, function_name, function_args, tool_result,
                   raised, expression, node, timezone, utc_now, pytz_folds_case,
                   query, num_results, search_data>>

\* `if not results:` with the call of _fallback_search, the formatting, and
\* the except clause for what the call raises.
SearchFormat ==
    /\ pc = "search_format"
    /\ LET outcome == FormatResults(query, num_results, results)
       IN  /\ raised' = outcome.exc
           /\ tool_result' = SearchCatches(query, outcome)
    /\ pc' = "search_done"
    /\ UNCHANGED <<sessionvars, function_name, function_args, expression, node,
                   timezone, utc_now, pytz_folds_case, searchvars>>

NextSearch ==
    \/ SearchEnter
    \/ SearchRequest
    \/ SearchCollect
    \/ SearchFormat

SpecSearch == InitSearch /\ [][NextSearch]_vars

\* =================================================================== claims
InQuery == pc \in {"invoke1", "dispatch1", "invoke2", "dispatch2", "invoke3"}

IsCommunicationError(v) ==
    IsStr(v) /\ Len(v.val) = 2 /\ v.val[1] = "Error communicating with OpenAI: "

\* C1 (as claimed): once a query in which a gateway call raised is over,
\* the stored conversation memory is what it was before the query; no
\* Exchange is recorded for it.
C1_MemoryUnchangedOnGatewayFailure ==
    (pc = "input" /\ raised = "Exception") => chat_history = history_before

\* C2: in one query the gateway is invoked at most three times and at most
\* two dispatch batches are run; once the third invocation is made the
\* loop is no longer inside chat_with_llm: it has returned a value.
C2_ChainedCallBound ==
    /\ gateway_calls <= 3
    /\ batches <= 2
    /\ gateway_calls = 3 => ~InQuery

\* C2 witness: the third response still asked for a tool call, and the loop
\* has returned.
C2_Witness ==
    /\ pc = "print"
    /\ raised = "none"
    /\ gateway_calls = 3
    /\ batches = 2
    /\ last_response.tool_calls # <<>>

\* The prompt of a query, stated Turn by Turn: the system Turn, the user and
\* assistant Turns of the min(n, W) most recent Exchanges, the new user Turn.
PromptShape(msgs, history, input) ==
    LET n == Len(history)
        m == IF n < WINDOW_SIZE THEN n ELSE WINDOW_SIZE
    IN  /\ Len(msgs) = 2 * m + 2
        /\ msgs[1] = Turn("system", SYSTEM_PROMPT, <<>>, 0)
        /\ \A j \in 1..m :
              /\ msgs[2 * j] = Turn("user", history[n - m + j].user, <<>>, 0)
              /\ msgs[2 * j + 1] = Turn("assistant", history[n - m + j].ai, <<>>, 0)
        /\ msgs[2 * m + 2] = Turn("user", input, <<>>, 0)

\* The round of C3: one tool call was requested and dispatched, the second
\* response carried none, nothing was raised.
OneCallRound ==
    /\ raised = "none"
    /\ gateway_calls = 2
    /\ batches = 1
    /\ last_response.tool_calls = <<>>
    /\ Len(messages) >= 2
    /\ Len(messages[Len(messages) - 1].tool_calls) = 1

\* C3: when the first response requests one tool call, the transcript of the
\* second invocation is the prompt (system, windowed history, user), then
\* the assistant Turn carrying that call, then the tool Turn with its id;
\* when the second response is final text the loop returns that text, and
\* recording adds exactly the Exchange {user_input, final text} to memory.
C3_RoundTrip ==
    /\ []((pc = "invoke2" /\ Len(response_message.tool_calls) = 1) =>
            LET p == Len(messages) - 2
                call == response_message.tool_calls[1]
            IN  /\ p >= 2
                /\ PromptShape(SubSeq(messages, 1, p), chat_history, user_input)
                /\ messages[p + 1].role = "assistant"
                /\ messages[p + 1].content = response_message.content
                /\ Len(messages[p + 1].tool_calls) = 1
                /\ messages[p + 1].tool_calls[1].id = call.id
                /\ messages[p + 1].tool_calls[1].name = call.name
                /\ messages[p + 1].tool_calls[1].arguments = call.arguments
                /\ messages[p + 2].role = "tool"
                /\ messages[p + 2].tool_call_id = call.id)
    /\ []((pc = "print" /\ OneCallRound) => response = last_response.content)
    /\ [][(pc = "print" /\ OneCallRound /\ pc' = "input") =>
             chat_history' = Append(history_before,
                                    [user |-> user_input,
                                     ai |-> last_response.content])]_vars

\* C3 witness: the Exchange of a one-call round with a text answer has just
\* been recorded.
C3_Witness ==
    /\ pc = "input"
    /\ OneCallRound
    /\ Truthy(last_response.content)
    /\ Len(chat_history) = Len(history_before) + 1
    /\ chat_history[Len(chat_history)].ai = last_response.content

\* Every tool Turn refers to a call of the nearest preceding assistant Turn.
ToolTurnsAnswerNearest(msgs) ==
    \A n \in DOMAIN msgs :
        msgs[n].role = "tool" =>
            \E a \in 1..(n - 1) :
                /\ msgs[a].role = "assistant"
                /\ \A b \in (a + 1)..(n - 1) : msgs[b].role # "assistant"
                /\ \E c \in DOMAIN msgs[a].tool_calls :
                      msgs[a].tool_calls[c].id = msgs[n].tool_call_id

\* Every assistant Turn with tool_calls is followed by one tool Turn per
\* call, in the order of the calls, and by no further tool Turn.
CallsAnsweredInOrder(msgs) ==
    \A a \in DOMAIN msgs :
        (msgs[a].role = "assistant" /\ msgs[a].tool_calls # <<>>) =>
            LET k == Len(msgs[a].tool_calls)
            IN  /\ a + k <= Len(msgs)
                /\ \A j \in 1..k :
                      /\ msgs[a + j].role = "tool"
                      /\ msgs[a + j].tool_call_id = msgs[a].tool_calls[j].id
                /\ a + k + 1 <= Len(msgs) => msgs[a + k + 1].role # "tool"

AtInvocation == pc \in {"invoke1", "invoke2", "invoke3"}

\* C4: whenever the transcript is about to be sent to the gateway, every
\* tool Turn carries the id of a call of the nearest preceding assistant
\* Turn, and every assistant Turn with tool_calls is followed by exactly one
\* tool Turn per call, in the order of the calls.
C4_TranscriptInvariant ==
    AtInvocation =>
        ToolTurnsAnswerNearest(messages) /\ CallsAnsweredInOrder(messages)

\* C4 witness: the third invocation, after a batch of two calls.
C4_Witness ==
    /\ pc = "invoke3"
    /\ \E a \in DOMAIN messages : Len(messages[a].tool_calls) = 2

\* The call a dispatch step is about to handle.
CurrentCall ==
    (IF pc = "dispatch1" THEN response_message ELSE final_response).tool_calls[i]

\* C5 (as claimed): a dispatch step on a call whose arguments are not valid
\* JSON appends a tool Turn carrying a string for that call and goes on
\* with the batch or with the next gateway invocation.
C5_MalformedArgumentsDoNotAbort ==
    [][(/\ pc \in {"dispatch1", "dispatch2"}
        /\ json_loads(CurrentCall.arguments).exc # "none"
        /\ pc' # "exited") =>
           /\ pc' \in {"dispatch1", "dispatch2", "invoke2", "invoke3"}
           /\ Len(messages') = Len(messages) + 1
           /\ messages'[Len(messages')].role = "tool"
           /\ IsStr(messages'[Len(messages')].content)]_vars

\* The names the if/elif chain of call_appropriate_tool routes.
KnownTools == {"calculator_tool", "get_current_time", "web_search"}

\* C6: for every name and payload, call_appropriate_tool returns a str and
\* raises nothing; a name that is none of the three tools gives the
\* unknown-tool string, and a known tool whose body raises gives
\* "Error executing <name>: <detail>".
C6_DispatcherTotality ==
    /\ pc # "raised"
    /\ pc = "dispatched" =>
          /\ IsStr(tool_result)
          /\ function_name \notin KnownTools =>
                tool_result.val = <<"Error: Unknown tool '", function_name, "'">>
          /\ (/\ function_name \in KnownTools
              /\ ToolBody(function_name, function_args).exc # "none") =>
                /\ Len(tool_result.val) = 4
                /\ SubSeq(tool_result.val, 1, 3) =
                      <<"Error executing ", function_name, ": ">>

\* C6 witness: web_search raised on a non-str query and the dispatcher
\* returned the execution error.
C6_Witness ==
    /\ pc = "dispatched"
    /\ function_name = "web_search"
    /\ function_args.type = "dict"
    /\ tool_result.val[1] = "Error executing "

\* C7: the prompt a query starts with is the system Turn, then the user and
\* assistant Turns of the min(n, W) most recent Exchanges of the n stored,
\* oldest first, then the new user Turn.
C7_WindowedPrompt ==
    pc = "invoke1" => PromptShape(messages, chat_history, user_input)

\* C7 witness: W + 1 Exchanges are stored and the answer of the oldest is
\* in no Turn of the prompt.
C7_Witness ==
    /\ pc = "invoke1"
    /\ Len(chat_history) = WINDOW_SIZE + 1
    /\ \A n \in DOMAIN messages : messages[n].content # chat_history[1].ai

\* C8 (as claimed): memory never holds more than W Exchanges.
C8_MemoryHoldsAtMostW == Len(chat_history) <= WINDOW_SIZE

\* C8 (amended): chat_history only grows, every Exchange ever recorded
\* stays in it in order; the prompt built from it holds at most W Exchanges.
C8_MemoryKeepsEveryExchange ==
    /\ [][/\ Len(chat_history') >= Len(chat_history)
          /\ SubSeq(chat_history', 1, Len(chat_history)) = chat_history]_vars
    /\ [](pc = "invoke1" => Len(messages) <= 2 * WINDOW_SIZE + 2)

\* C8 witness: more than W Exchanges are stored.
C8_Witness == pc = "input" /\ Len(chat_history) = WINDOW_SIZE + 1

\* C9: an Exception-class exception raised in chat_with_llm (at a gateway
\* invocation or in a dispatch batch) is caught there: the loop returns an
\* error string; and the query after a failed one starts from the prompt
\* rebuilt from memory, with no Turn of the failed transcript.
C9_ExceptionsBecomeErrorStrings ==
    /\ [][(raised = "none" /\ raised' \in ExceptionClasses) =>
             (pc' = "print" /\ IsCommunicationError(response'))]_vars
    /\ [][(pc = "input" /\ raised \in ExceptionClasses /\ pc' = "invoke1") =>
             PromptShape(messages', chat_history, user_input')]_vars

\* C9 witness: a query has started after one that failed in a dispatch
\* batch, whose error string is the last answer in memory.
C9_Witness ==
    /\ pc = "invoke1"
    /\ chat_history # <<>>
    /\ chat_history[Len(chat_history)].ai = CommunicationError("JSONDecodeError")

\* C10: a KeyboardInterrupt, wherever it is raised, ends the session with
\* exit code 0; it is not turned into an error string, and the round it
\* interrupts records no Exchange.
C10_KeyboardInterruptPropagates ==
    /\ [][(raised # "KeyboardInterrupt" /\ raised' = "KeyboardInterrupt") =>
             /\ pc' = "exited"
             /\ exit_code' = 0
             /\ response' # CommunicationError("KeyboardInterrupt")
             /\ chat_history' = chat_history
             /\ (InQuery \/ pc = "print") => chat_history = history_before]_vars
    /\ [](raised = "KeyboardInterrupt" => pc = "exited")

\* C10 witness: the session ended on a KeyboardInterrupt raised after the
\* first gateway answer, while a dispatch batch was under way.
C10_Witness ==
    /\ pc = "exited"
    /\ raised = "KeyboardInterrupt"
    /\ gateway_calls = 1
    /\ batches = 1

\* ------------------------------------------------------------ calculator claims
\* The expression text calculator_tool was called with.
GivenExpression == DictGet(function_args, "expression", Str(<<"">>))

\* The whitelist of the Expression Evaluator: the callable names and the
\* function and constant names of the math library, qualified or not.
Whitelist == {"abs", "round", "min", "max", "sum", "pow", "sqrt", "sin", "cos",
              "tan", "log", "pi", "e", "math"}

HasForeignIdentifier(tokens) ==
    \E k \in DOMAIN tokens : tokens[k] \in Identifiers \ Whitelist

\* The percentage phrases among the inputs, each with P/100 * N.
PercentageValues ==
    {<< <<"15", "%", "of", "847">>, <<2541, 20>> >>,
     << <<"15", "percent", "of", "847">>, <<2541, 20>> >>,
     << <<"15", "percentage", "of", "847">>, <<2541, 20>> >>,
     << <<"100", "%", "of", "8">>, <<8, 1>> >>}

PercentagePhrases == {p[1] : p \in PercentageValues}

IsUnsafeOperation(v) ==
    IsStr(v) /\ Len(v.val) = 3 /\ SubSeq(v.val, 1, 2) = <<"Error: ", "Unsafe operation: ">>

\* C11 (as claimed): an expression that holds an identifier outside the
\* whitelist, as a bare name, as a called function or as an attribute, never
\* reaches eval, and what calculator_tool returns for it is the unsafe
\* operation error.  (The percentage phrases are the matter of C13.)
C11_Sandboxing ==
    (/\ GivenExpression.type = "str"
     /\ GivenExpression.val \notin PercentagePhrases
     /\ HasForeignIdentifier(GivenExpression.val)) =>
        /\ pc # "calc_eval"
        /\ pc = "calc_done" => IsUnsafeOperation(tool_result)

\* The well-formed arithmetic expressions among the inputs, each with its
\* value as the fraction <<numerator, denominator>>.
ArithmeticValues ==
    {<< <<"2", "+", "3", "*", "4">>, <<14, 1>> >>,
     << <<"2", "*", "3", "+", "4">>, <<10, 1>> >>,
     << <<"7", "-", "3", "-", "2">>, <<2, 1>> >>,
     << <<"8", "/", "4", "/", "2">>, <<1, 1>> >>,
     << <<"7", "/", "2">>, <<7, 2>> >>,
     << <<"6", "*", "7">>, <<42, 1>> >>,
     << <<"(", "2", "+", "3", ")", "*", "4">>, <<20, 1>> >>,
     << <<"-", "2", "+", "3", "*", "4">>, <<10, 1>> >>,
     << <<"(", "8", ")", "/", "2">>, <<4, 1>> >>,
     << <<"(", "7", ")", "/", "2">>, <<7, 2>> >>,
     << <<"-", "8", "/", "4", "/", "2">>, <<-1, 1>> >>,
     << <<"sqrt", "(", "16", ")", "+", "2">>, <<6, 1>> >>,
     << <<"abs", "(", "-", "3", ")", "*", "2">>, <<6, 1>> >>}

\* The text of a value in a result: the digits after " = ".
ValueText(fraction) ==
    IF fraction[2] = 1 THEN <<ToString(fraction[1])>>
    ELSE <<ToString(fraction[1]), "/", ToString(fraction[2])>>

\* What calculator_tool returned ends with " = " and the value.
ReturnsValue(fraction) ==
    LET text == ValueText(fraction)
        n == Len(tool_result.val)
    IN  /\ IsStr(tool_result)
        /\ n > Len(text)
        /\ SubSeq(tool_result.val, n - Len(text), n) = <<" = ">> \o text

\* C12 (as claimed): for a well-formed arithmetic expression, whether it
\* starts with a digit, a function name, a parenthesis or a sign,
\* calculator_tool returns its value under the usual precedence, not an
\* error string.
C12_ArithmeticIsCorrect ==
    pc = "calc_done" =>
        \A p \in ArithmeticValues :
            GivenExpression = Str(p[1]) => ReturnsValue(p[2])

\* C13 (as claimed): for a percentage phrase calculator_tool returns
\* P/100 * N, and it does so without parsing the phrase as an expression.
C13_PercentageFastPath ==
    \A p \in PercentageValues :
        GivenExpression = Str(p[1]) =>
            /\ pc \notin {"calc_parse", "calc_check", "calc_eval"}
            /\ pc = "calc_done" => ReturnsValue(p[2])

\* The inputs whose evaluation divides by zero, and those that take the
\* square root of a negative number.
DivisionsByZero == {<<"1", "/", "0">>, <<"(", "1", ")", "/", "0">>}

DomainErrors == {<<"sqrt", "(", "-", "1", ")">>,
                 <<"(", "sqrt", "(", "-", "1", ")", ")">>}

\* C23 (as claimed): calculator_tool does not raise on a division by zero or
\* on the square root of a negative number; it returns the division-by-zero
\* error for the one and the math-domain error for the other, neither the
\* invalid-expression error nor the unsafe-operation error.
C23_EvaluationErrorsClassified ==
    GivenExpression.type = "str" =>
        /\ pc # "calc_raised"
        /\ (pc = "calc_done" /\ GivenExpression.val \in DivisionsByZero) =>
              tool_result = Str(<<"Error: Division by zero">>)
        /\ (pc = "calc_done" /\ GivenExpression.val \in DomainErrors) =>
              tool_result = Str(<<"Error: ", "math domain error">>)

\* --------------------------------------------------------- time resolver claims
\* The timezone token get_current_time was called with.
GivenToken == DictGet(function_args, "timezone", Str(<<"UTC">>))

\* The alias table of the Time Resolver as the specification lists it.
ClaimedAliases ==
    {<<"EST", "US/Eastern">>, <<"PST", "US/Pacific">>, <<"CST", "US/Central">>,
     <<"MST", "US/Mountain">>, <<"JST", "Asia/Tokyo">>, <<"GMT", "GMT">>,
     <<"CET", "Europe/Paris">>, <<"IST", "Asia/Kolkata">>,
     <<"BST", "Europe/London">>, <<"PDT", "US/Pacific">>, <<"EDT", "US/Eastern">>}

\* Its entries other than BST, PDT and EDT.
EightAliases == {p \in ClaimedAliases : p[1] \notin {"BST", "PDT", "EDT"}}

\* What get_current_time returns for the token `name` at the instant of the
\* state.
Resolved(name) == get_current_time(Str(<<name>>)).value

\* The result reports the current time of the zone `name`.
ReportsZone(v, name) ==
    IsStr(v) /\ Len(v.val) >= 2 /\ v.val[1] = "Current time in " /\ v.val[2] = name

\* C14 (as claimed): for each of the eleven aliases, get_current_time gives
\* for the alias what it gives, at the same instant, for the alias's target.
C14_ElevenAliasesEquivalent ==
    pc = "time_done" =>
        \A p \in ClaimedAliases :
            GivenToken = Str(<<p[1]>>) => tool_result = Resolved(p[2])

\* C14 (amended): for each of the eight aliases of timezone_aliases,
\* get_current_time reports the target zone and gives what it gives, at the
\* same instant, for the target; BST, PDT and EDT are no aliases, they reach
\* the timezone database as written.
C14_EightAliasesEquivalent ==
    /\ pc = "time_done" =>
          \A p \in EightAliases :
              GivenToken = Str(<<p[1]>>) =>
                  /\ ReportsZone(tool_result, p[2])
                  /\ tool_result = Resolved(p[2])
    /\ pc = "time_lookup" =>
          \A p \in ClaimedAliases \ EightAliases :
              GivenToken = Str(<<p[1]>>) => timezone = GivenToken

\* C14 witness: EST was resolved in summer, and the time reported is the
\* daylight saving time of US/Eastern.
C14_Witness ==
    /\ pc = "time_done"
    /\ GivenToken = Str(<<"EST">>)
    /\ utc_now.summer
    /\ ReportsZone(tool_result, "US/Eastern")
    /\ \E k \in DOMAIN tool_result.val : tool_result.val[k] = "EDT"

\* The token as text; a token that is no str has none.
TokenText == IF GivenToken.type = "str" THEN GivenToken.val[1] ELSE ""

\* The token is the alias `name` in some letter case.
SpellsAlias(name) == TokenText # "" /\ py_lower(TokenText) = py_lower(name)

\* C20 (as claimed): a token that is an alias in any letter case gives what
\* the alias's target zone gives at the same instant.
C20_AnyCaseEquivalent ==
    pc = "time_done" =>
        \A p \in ClaimedAliases :
            SpellsAlias(p[1]) => tool_result = Resolved(p[2])

\* C20 (amended): the alias table is consulted before the timezone database
\* and its keys are compared as written.  A token written as a key is
\* replaced by its target before the database is asked, also when the
\* database has a zone of the alias's own name, and gives what the target
\* gives; a token that differs from a key in letter case is not replaced
\* and gives what the database gives for it as written.
C20_KeysAsWritten ==
    \A p \in EightAliases :
        /\ (pc \in {"time_lookup", "time_done"} /\ TokenText = p[1]) =>
              timezone = Str(<<p[2]>>)
        /\ (pc = "time_done" /\ TokenText = p[1]) =>
              tool_result = ResolveZone(p[2], utc_now, pytz_folds_case)
        /\ (pc \in {"time_lookup", "time_done"} /\ SpellsAlias(p[1])
              /\ TokenText # p[1]) =>
              timezone = GivenToken
        /\ (pc = "time_done" /\ SpellsAlias(p[1]) /\ TokenText # p[1]) =>
              /\ tool_result = ResolveZone(TokenText, utc_now, pytz_folds_case)
              /\ ~ReportsZone(tool_result, p[2])

\* C20 witness: "est" was resolved in summer by a pytz that folds case; the
\* answer is the fixed-offset zone EST under the name est, which is not what
\* US/Eastern gives.
C20_Witness ==
    /\ pc = "time_done"
    /\ TokenText = "est"
    /\ pytz_folds_case
    /\ utc_now.summer
    /\ ReportsZone(tool_result, "est")
    /\ tool_result # Resolved("US/Eastern")

\* The result is an unknown-timezone error string.
IsUnknownTimezone(v) ==
    IsStr(v) /\ Len(v.val) >= 3 /\ v.val[1] = "Error: Unknown timezone '"

\* The result is a current-time string.
IsCurrentTime(v) ==
    IsStr(v) /\ Len(v.val) >= 2 /\ v.val[1] = "Current time in "

\* C21 (as claimed): get_current_time never raises; for an empty token and
\* for a blank one it gives the current time in UTC, and for every other
\* str token a current-time string or an unknown-timezone error string.
C21_TotalAndDefaultsToUTC ==
    pc = "time_done" =>
        /\ IsStr(tool_result)
        /\ GivenToken.type = "str" =>
              IF py_strip(GivenToken.val) = <<>>
              THEN tool_result = Resolved("UTC")
              ELSE IsCurrentTime(tool_result) \/ IsUnknownTimezone(tool_result)

\* ------------------------------------------------------------- search claims
\* The query web_search was called with.
GivenQuery == DictGet(function_args, "query", Str(<<"">>))

\* The API answered, with no answer, no abstract, no definition and no
\* related topic.
EmptyResultSet ==
    /\ search_data.exc = "none"
    /\ search_data.data.Answer = ""
    /\ search_data.data.Abstract = ""
    /\ search_data.data.Definition = ""
    /\ search_data.data.RelatedTopics = <<>>

IsNoResults(v) ==
    IsStr(v) /\ Len(v.val) >= 1 /\ v.val[1] = "No results found for '"

\* C22 (as claimed): for a query that is not empty and an answer of the API
\* with an empty result set, web_search returns a no-results message.
C22_NoResultsMessage ==
    (/\ pc = "search_done"
     /\ GivenQuery.type = "str"
     /\ py_strip(GivenQuery.val) # <<>>
     /\ EmptyResultSet) => IsNoResults(tool_result)

\* ------------------------------------------------------------- session claims
\* The lines that are quit, exit or q in some letter case, and the lines
\* that are empty or white space only (a line is taken without the white
\* space around it).
QuitLines == {"quit", "EXIT", " q "}

BlankLines == {"", "   "}

\* C15: a line that is quit, exit or q in any letter case ends the session
\* with no gateway call; an empty or blank line leaves the session waiting
\* for the next line, makes no gateway call and leaves chat_history as it
\* is; every other line starts one query, from one prompt that ends with
\* the new user Turn, and one line adds at most one Exchange.
C15_LinesOfTheSession ==
    /\ [][(pc = "input" /\ raised' # "KeyboardInterrupt") =>
             /\ input_line' \in Lines
             /\ chat_history' = chat_history
             /\ gateway_calls' = 0
             /\ input_line' \in QuitLines => (pc' = "exited" /\ exit_code' = 0)
             /\ input_line' \in BlankLines => (pc' = "input" /\ exit_code' = -1)
             /\ input_line' \notin QuitLines \cup BlankLines =>
                   /\ pc' = "invoke1"
                   /\ PromptShape(messages', chat_history, user_input')]_vars
    /\ []((pc \in {"input", "exited"} /\ input_line \in QuitLines \cup BlankLines) =>
             (gateway_calls = 0 /\ chat_history = history_before))
    /\ [](Len(chat_history) <= Len(history_before) + 1)

\* C15 witness: after an answered query, EXIT has ended the session.
C15_Witness ==
    /\ pc = "exited"
    /\ input_line = "EXIT"
    /\ exit_code = 0
    /\ raised = "none"
    /\ chat_history # <<>>

\* The batch being dispatched.
CurrentBatch ==
    (IF pc = "dispatch1" THEN response_message ELSE final_response).tool_calls

Dispatching == pc \in {"dispatch1", "dispatch2"}

\* C16: while a batch is dispatched the transcript ends with the assistant
\* Turn of the batch and the tool Turns of the calls before the current
\* one, in the order of tool_calls; a dispatch step handles the current
\* call alone, appends its tool Turn and only then moves to the next call,
\* or to the next gateway invocation after the last call; the gateway is
\* not invoked inside a batch.
C16_BatchInOrder ==
    /\ [](Dispatching =>
            LET a == Len(messages) - (i - 1)
            IN  /\ i \in 1..Len(CurrentBatch)
                /\ a >= 1
                /\ messages[a].role = "assistant"
                /\ Len(messages[a].tool_calls) = Len(CurrentBatch)
                /\ \A k \in 1..Len(CurrentBatch) :
                      messages[a].tool_calls[k].id = CurrentBatch[k].id
                /\ \A k \in 1..(i - 1) :
                      /\ messages[a + k].role = "tool"
                      /\ messages[a + k].tool_call_id = CurrentBatch[k].id)
    /\ [][(Dispatching /\ raised' = "none") =>
             /\ gateway_calls' = gateway_calls
             /\ Len(messages') = Len(messages) + 1
             /\ SubSeq(messages', 1, Len(messages)) = messages
             /\ messages'[Len(messages')].role = "tool"
             /\ messages'[Len(messages')].tool_call_id = CurrentBatch[i].id
             /\ messages'[Len(messages')].content = tool_result'
             /\ function_name' = CurrentBatch[i].name
             /\ IF i < Len(CurrentBatch)
                THEN pc' = pc /\ i' = i + 1
                ELSE pc' = (IF pc = "dispatch1" THEN "invoke2" ELSE "invoke3")]_vars

\* C16 witness: the second call of a batch is about to be dispatched and the
\* tool Turn of the first call ends the transcript.
C16_Witness ==
    /\ pc = "dispatch2"
    /\ i = 2
    /\ messages[Len(messages)].role = "tool"
    /\ messages[Len(messages)].tool_call_id = final_response.tool_calls[1].id
    /\ final_response.tool_calls[1].name # final_response.tool_calls[2].name

\* C17: when the third response carries tool_calls, the loop returns without
\* dispatching them or appending a Turn, and what it returns is the third
\* response's content when that is text, otherwise the second response's
\* content, null or not.
C17_ThirdResponseIsFinal ==
    [][(/\ pc = "invoke3"
        /\ raised' = "none"
        /\ last_response'.tool_calls # <<>>) =>
           /\ pc' = "print"
           /\ gateway_calls' = 3
           /\ batches' = batches
           /\ messages' = messages
           /\ response' = IF IsStr(last_response'.content)
                          THEN last_response'.content
                          ELSE final_response.content]_vars

\* C17 witness: the third response asked for a tool call and had no content,
\* and the loop returned the text of the second response.
C17_Witness ==
    /\ pc = "print"
    /\ raised = "none"
    /\ gateway_calls = 3
    /\ last_response.tool_calls # <<>>
    /\ last_response.content = None
    /\ IsStr(response)

\* The first response of the round carried no tool_calls and was returned.
DirectAnswer ==
    /\ raised = "none"
    /\ gateway_calls = 1
    /\ last_response.tool_calls = <<>>

\* C18: when the first response carries no tool_calls the loop returns its
\* content at once: no batch is started, no tool is dispatched, the
\* transcript stays the prompt, and the gateway was invoked once when the
\* Exchange is recorded.
C18_DirectAnswer ==
    /\ [][(/\ pc = "invoke1"
           /\ raised' = "none"
           /\ last_response'.tool_calls = <<>>) =>
              /\ pc' = "print"
              /\ gateway_calls' = 1
              /\ batches' = 0
              /\ tool_result' = tool_result
              /\ messages' = messages
              /\ response' = last_response'.content]_vars
    /\ []((pc \in {"print", "input"} /\ DirectAnswer) =>
             /\ batches = 0
             /\ response = last_response.content
             /\ PromptShape(messages, history_before, user_input))
    /\ [][(pc = "print" /\ DirectAnswer /\ pc' = "input") =>
             /\ gateway_calls' = 1
             /\ chat_history' = Append(history_before,
                                       [user |-> user_input,
                                        ai |-> last_response.content])]_vars

\* C18 witness: a second query was answered directly with text.
C18_Witness ==
    /\ pc = "print"
    /\ DirectAnswer
    /\ Truthy(response)
    /\ chat_history # <<>>

\* C19 (as claimed): every Exchange in chat_history has a str user and a str
\* assistant field, and every assistant Turn of a prompt built from it has
\* str content.
C19_ExchangesAreText ==
    /\ \A k \in DOMAIN chat_history :
          IsStr(chat_history[k].user) /\ IsStr(chat_history[k].ai)
    /\ pc = "invoke1" =>
          \A k \in DOMAIN messages :
              messages[k].role = "assistant" => IsStr(messages[k].content)

\* C24: while a query is under way, with whatever assistant Turns with
\* tool_calls and tool Turns it appends to its transcript, chat_history
\* stays as it is; what is recorded afterwards is one Exchange of the user
\* text and the returned value, and an Exchange has those two fields only;
\* the prompt of every query is the system Turn, the user and assistant
\* Turns rebuilt from the stored Exchanges and the new user Turn, none of
\* them a tool Turn or a Turn with tool_calls.
C24_TranscriptIsolation ==
    /\ [][InQuery => chat_history' = chat_history]_vars
    /\ [][(pc = "print" /\ pc' = "input") =>
             chat_history' = Append(chat_history,
                                    [user |-> user_input, ai |-> response])]_vars
    /\ [](\A k \in DOMAIN chat_history :
             /\ DOMAIN chat_history[k] = {"user", "ai"}
             /\ chat_history[k].user.type = "str"
             /\ chat_history[k].ai.type \in {"str", "NoneType"})
    /\ [](pc = "invoke1" =>
             /\ PromptShape(messages, chat_history, user_input)
             /\ \A k \in DOMAIN messages :
                   /\ messages[k].role \in {"system", "user", "assistant"}
                   /\ messages[k].tool_calls = <<>>
                   /\ messages[k].tool_call_id = 0)

\* C24 witness: a query starts after tool calls were requested and
\* dispatched in an earlier query of the session and its Exchange was
\* recorded.
C24_Witness ==
    /\ pc = "invoke1"
    /\ tool_total > 0
    /\ chat_history # <<>>
    /\ Len(messages) = 2 * Len(chat_history) + 2

====
